---------------------------- MODULE Spec2Model ----------------------------
(***************************************************************************)
(* A model of the goscript code generator (codegen/src/codegen.rs) and of  *)
(* the runtime value layer (vm/src/value.rs).                              *)
(*                                                                         *)
(* Three state machines share the module:                                  *)
(*   SpecVal  the value layer: operands are drawn in Init and each action  *)
(*            applies one operation of GosValue / GosValue64 to them;      *)
(*   Spec     the code generator: every action is one step of the AST      *)
(*            visitor, emitting instructions into the function on top of   *)
(*            func_stack;                                                  *)
(*   SpecRes  the code generator on nested function literals, for the      *)
(*            resolution of identifiers;                                   *)
(*   SpecObj  the reference variants of GosValue on a heap of Rc           *)
(*            allocations: constructors, clone and drop, copy_semantic,    *)
(*            the refcount cell, indexing and equality;                    *)
(*   SpecDefer  defer statements, from their lowering to the run of the    *)
(*            emitted function.                                            *)
(* Integers of the value layer are little-endian byte sequences (two's     *)
(* complement), so that 64-bit payloads keep their width.                  *)
(***************************************************************************)
EXTENDS Integers, Sequences, FiniteSets, TLC

VARIABLES
    vphase,      \* value layer: "off" | "input" | "done"
    va, vb,      \* value layer: the two operand GosValues
    vres,        \* value layer: the record of the operation applied
    functions,   \* codegen: objects.functions, FunctionKey -> FunctionVal
    func_stack,  \* codegen: CodeGen.func_stack, a sequence of FunctionKeys
    func_t_stack,\* codegen: CodeGen.func_t_stack, the signatures of func_stack
    frames,      \* codegen: the visitor's pending calls (markers held in locals)
    stmts,       \* codegen: the number of statements visited so far
    last,        \* codegen: what the last visitor step lowered
    branch,      \* codegen: CodeGen.branch, the open blocks with their break points
    heap,        \* objects: the Rc allocations, by address
    gcobjs,      \* objects: GcoVec, the weak handles given to the collector
    roots,       \* objects: the GosValues the program holds
    queue,       \* objects: the RCQueue handed to mark_dirty
    olast,       \* objects: the record of the operation applied last
    vm,          \* runtime: the frame running the emitted function
    tc           \* types: the Checker, what it was run on and what it reported

valvars == <<vphase, va, vb, vres>>
cgvars == <<functions, func_stack, func_t_stack, frames, stmts, last, branch>>
objvars == <<heap, gcobjs, roots, queue, olast>>
vars == <<vphase, va, vb, vres, functions, func_stack, func_t_stack, frames, stmts, last, branch,
          heap, gcobjs, roots, queue, olast, vm, tc>>

(***************************************************************************)
(* Bounds of the model                                                     *)
(***************************************************************************)
\* operands of the value layer: 0..MaxSmall around 0, MIN, MAX and -1
MaxSmall == 1

(***************************************************************************)
(* Byte sequences: the payloads of V64Union fields                         *)
(***************************************************************************)
Zeros(n) == [i \in 1..n |-> 0]

RECURSIVE FromNat(_, _)
FromNat(k, n) == IF n = 0 THEN <<>> ELSE <<k % 256>> \o FromNat(k \div 256, n - 1)

\* a + b + c on little-endian bytes, truncated to Len(a) bytes
RECURSIVE AddC(_, _, _)
AddC(a, b, c) ==
    IF a = <<>> THEN <<>>
    ELSE LET s == Head(a) + Head(b) + c
         IN  <<s % 256>> \o AddC(Tail(a), Tail(b), s \div 256)

\* the carry out of a + b + c
RECURSIVE CarryOut(_, _, _)
CarryOut(a, b, c) ==
    IF a = <<>> THEN c ELSE CarryOut(Tail(a), Tail(b), (Head(a) + Head(b) + c) \div 256)

NotB(a) == [i \in 1..Len(a) |-> 255 - a[i]]

\* a * d + c for one byte d, truncated to Len(a) bytes
RECURSIVE MulByte(_, _, _)
MulByte(a, d, c) ==
    IF a = <<>> THEN <<>>
    ELSE LET s == Head(a) * d + c
         IN  <<s % 256>> \o MulByte(Tail(a), d, s \div 256)

RECURSIVE MulB(_, _)
MulB(a, b) ==
    IF b = <<>> THEN Zeros(Len(a))
    ELSE LET n == Len(a)
             hi == MulB(a, Tail(b))
         IN  AddC(MulByte(a, Head(b), 0), <<0>> \o SubSeq(hi, 1, n - 1), 0)

TopBit(a) == a[Len(a)] \div 128
One(n) == FromNat(1, n)
IsZeroB(a) == \A i \in 1..Len(a) : a[i] = 0

\* a >= b as unsigned numbers of the same length
GeqB(a, b) == CarryOut(a, NotB(b), 1) = 1

\* the largest byte d with d * b <= r, found bit by bit from the top
RECURSIVE Digit(_, _, _, _)
Digit(b, r, d, bit) ==
    IF bit = 0 THEN d
    ELSE IF GeqB(r, MulByte(b, d + bit, 0))
         THEN Digit(b, r, d + bit, bit \div 2)
         ELSE Digit(b, r, d, bit \div 2)

\* one step of long division: the next quotient byte and the new remainder
DivOne(x, b, q, r) ==
    LET r2 == <<x>> \o SubSeq(r, 1, Len(r) - 1)
        d == Digit(b, r2, 0, 128)
    IN  << <<d>> \o q, AddC(r2, NotB(MulByte(b, d, 0)), 1) >>

\* unsigned long division, byte by byte from the top; b and r have two bytes
\* more than a
RECURSIVE DivStep(_, _, _, _, _)
DivStep(a, b, i, q, r) ==
    IF i = 0 THEN q
    ELSE CHOOSE res \in {DivStep(a, b, i - 1, s[1], s[2]) : s \in {DivOne(a[i], b, q, r)}} : TRUE

UDivB(a, b) == DivStep(a, b \o <<0, 0>>, Len(a), <<>>, Zeros(Len(a) + 2))

(***************************************************************************)
(* Rust's Wrapping<T> operators on one integer field                       *)
(***************************************************************************)
wrapping_add(a, b) == AddC(a, b, 0)
wrapping_neg(a) == AddC(NotB(a), Zeros(Len(a)), 1)
wrapping_sub(a, b) == AddC(a, NotB(b), 1)
wrapping_mul(a, b) == MulB(a, b)

AbsB(a) == IF TopBit(a) = 1 THEN wrapping_neg(a) ELSE a

\* Wrapping<T> / Wrapping<T>: truncating division; the quotient of MIN / -1
\* wraps to MIN; callers handle the zero divisor
wrapping_div(a, b, signed) ==
    IF ~signed THEN UDivB(a, b)
    ELSE LET q == UDivB(AbsB(a), AbsB(b))
         IN  IF TopBit(a) # TopBit(b) THEN wrapping_neg(q) ELSE q

(***************************************************************************)
(* GosValue: the tagged value; data is the payload's bytes                 *)
(***************************************************************************)
SignedTags == {"Int", "Int8", "Int16", "Int32", "Int64"}
UnsignedTags == {"Uint", "UintPtr", "Uint8", "Uint16", "Uint32", "Uint64"}
IntTags == SignedTags \cup UnsignedTags
FloatTags == {"Float32", "Float64"}
\* the variants from_v128 has an arm for
V64Tags == {"Bool"} \cup IntTags \cup FloatTags \cup {"Complex64", "Function", "Package"}
\* the scalar variants of enum GosValue (Bool .. Complex128)
ScalarTags == {"Bool"} \cup IntTags \cup FloatTags \cup {"Complex64", "Complex128"}
\* the variants impl Hash has an arm for, without those held in vm/src/objects.rs
HashableTags == ScalarTags \cup {"Str", "Named"}

\* the size in bytes of the payload of a variant (isize and usize: 64-bit host)
NBytes(t) ==
    CASE t \in {"Bool", "Int8", "Uint8"} -> 1
      [] t \in {"Int16", "Uint16"} -> 2
      [] t \in {"Int32", "Uint32", "Float32"} -> 4
      [] t = "Complex128" -> 16
      [] OTHER -> 8

GosValue(t, d) == [tag |-> t, data |-> d, ntag |-> "", meta |-> 0]
\* GosValue::Named(Box<(GosValue, GosMetadata)>)
Named(v, m) == [tag |-> "Named", data |-> v.data, ntag |-> v.tag, meta |-> m]
NamedInner(v) == GosValue(v.ntag, v.data)
\* the outcome of a panic (unreachable!(), a division by zero)
Panicked == [tag |-> "panic", data |-> <<>>, ntag |-> "", meta |-> 0]

SMax(n) == [i \in 1..n |-> IF i = n THEN 127 ELSE 255]
SMin(n) == [i \in 1..n |-> IF i = n THEN 128 ELSE 0]
AllOnes(n) == [i \in 1..n |-> 255]
MaxOf(t) == IF t \in SignedTags THEN SMax(NBytes(t)) ELSE AllOnes(NBytes(t))
MinOf(t) == IF t \in SignedTags THEN SMin(NBytes(t)) ELSE Zeros(NBytes(t))

(***************************************************************************)
(* ordered_float::OrderedFloat<f32|f64> on IEEE-754 bit patterns           *)
(***************************************************************************)
IsNanF(b) ==
    IF Len(b) = 4
    THEN b[4] % 128 = 127 /\ b[3] >= 128
         /\ (b[3] % 128 # 0 \/ b[2] # 0 \/ b[1] # 0)
    ELSE b[8] % 128 = 127 /\ b[7] \div 16 = 15
         /\ (b[7] % 16 # 0 \/ \E i \in 1..6 : b[i] # 0)

IsZeroF(b) == b[Len(b)] % 128 = 0 /\ \A i \in 1..(Len(b) - 1) : b[i] = 0

\* the primitive ==: NaN differs from everything, +0 equals -0
IeeeEq(x, y) == ~IsNanF(x) /\ ~IsNanF(y) /\ (x = y \/ (IsZeroF(x) /\ IsZeroF(y)))

\* impl PartialEq for OrderedFloat: all NaNs are equal
OrderedFloatEq(x, y) == IF IsNanF(x) THEN IsNanF(y) ELSE IeeeEq(x, y)

CanonicalNaN(n) == IF n = 4 THEN <<0, 0, 192, 127>> ELSE <<0, 0, 0, 0, 0, 0, 248, 127>>

\* impl Hash for OrderedFloat: one representation for NaN and for zero
OrderedFloatHash(x) ==
    IF IsNanF(x) THEN CanonicalNaN(Len(x))
    ELSE IF IsZeroF(x) THEN Zeros(Len(x))
    ELSE x

\* f32::to_bits / f64::to_bits through Deref: the raw pattern
to_bits(x) == x

(***************************************************************************)
(* impl PartialEq for GosValue, impl Hash for GosValue                     *)
(***************************************************************************)
Lo(d) == SubSeq(d, 1, Len(d) \div 2)
Hi(d) == SubSeq(d, Len(d) \div 2 + 1, Len(d))

\* the arms of eq for two values of the same scalar, handle or Str variant
PlainEq(x, y) ==
    CASE x.tag # y.tag -> FALSE
      [] x.tag \in FloatTags -> OrderedFloatEq(x.data, y.data)
      [] x.tag \in {"Complex64", "Complex128"} ->
            OrderedFloatEq(Lo(x.data), Lo(y.data)) /\ OrderedFloatEq(Hi(x.data), Hi(y.data))
      [] x.tag \in {"Bool", "Function", "Package", "Str"} \cup IntTags -> x.data = y.data
      [] OTHER -> FALSE

\* PartialEq::eq; (Named(x), Named(y)) => x.0 == y.0
GosEq(x, y) ==
    IF x.tag = "Named" /\ y.tag = "Named"
    THEN PlainEq(NamedInner(x), NamedInner(y))
    ELSE PlainEq(x, y)

\* what an arm of hash feeds to the Hasher
PlainHash(v) ==
    CASE v.tag \in FloatTags -> to_bits(v.data)
      [] v.tag \in {"Complex64", "Complex128"} ->
            OrderedFloatHash(Lo(v.data)) \o OrderedFloatHash(Hi(v.data))
      [] v.tag = "Str" -> v.data \o <<255>>
      [] v.tag \in {"Bool"} \cup IntTags -> v.data
      [] OTHER -> <<-1>>   \* _ => unreachable!()

\* Hash::hash; GosValue::Named(n) => n.0.hash(state)
GosHash(v) == IF v.tag = "Named" THEN PlainHash(NamedInner(v)) ELSE PlainHash(v)

(***************************************************************************)
(* GosValue64: the untagged 8-byte cell.  A union literal sets one field;  *)
(* the bytes beyond that field are uninitialised (junk).                   *)
(***************************************************************************)
V64(d, junk) == [ok |-> TRUE, data |-> d \o [i \in 1..(8 - Len(d)) |-> junk]]
NoV64 == [ok |-> FALSE, data |-> <<>>]
Field(c, n) == SubSeq(c.data, 1, n)

\* GosValue64::from_v128: Option<GosValue64>, None for the variants without an arm
from_v128(v, junk) == IF v.tag \in V64Tags THEN V64(v.data, junk) ELSE NoV64

\* a plausible slip in get_v128: the two halves of complex64 taken in the wrong order
get_v128_swapped(c, t) ==
    CASE t = "Complex64" -> GosValue(t, SubSeq(c.data, 5, 8) \o SubSeq(c.data, 1, 4))
      [] t \in V64Tags -> GosValue(t, Field(c, NBytes(t)))
      [] OTHER -> Panicked

\* GosValue64::get_v128: the field the type names, rewrapped
get_v128(c, t) ==
    CASE t \in {"Bool", "Int8", "Uint8"} -> GosValue(t, Field(c, 1))
      [] t \in {"Int16", "Uint16"} -> GosValue(t, Field(c, 2))
      [] t \in {"Int32", "Uint32", "Float32"} -> GosValue(t, Field(c, 4))
      [] t \in {"Int", "Int64", "Uint", "UintPtr", "Uint64", "Float64"} -> GosValue(t, Field(c, 8))
      [] t = "Complex64" -> GosValue(t, SubSeq(c.data, 1, 4) \o SubSeq(c.data, 5, 8))
      [] t \in {"Function", "Package"} -> GosValue(t, Field(c, 8))
      [] OTHER -> Panicked

ArithOps == {"ADD", "SUB", "MUL", "QUO"}

\* the operator on the primitive, without Wrapping: an overflowing + panics
\* (overflow checks on); used here as the slip of union_op_wrap
union_op_checked(a, b, n, signed, op, junk) ==
    LET x == Field(a, n)
        y == Field(b, n)
        ovf == IF signed
               THEN TopBit(x) = TopBit(y) /\ TopBit(wrapping_add(x, y)) # TopBit(x)
               ELSE CarryOut(x, y, 0) = 1
    IN  CASE op = "ADD" -> IF ovf THEN NoV64 ELSE V64(wrapping_add(x, y), junk)
          [] op = "SUB" -> V64(wrapping_sub(x, y), junk)
          [] op = "MUL" -> V64(wrapping_mul(x, y), junk)
          [] op = "QUO" -> IF IsZeroB(y) THEN NoV64 ELSE V64(wrapping_div(x, y, signed), junk)

\* macro union_op_wrap: (Wrapping(a.field) op Wrapping(b.field)).0 in a new union
union_op_wrap(a, b, n, signed, op, junk) ==
    LET x == Field(a, n)
        y == Field(b, n)
    IN  CASE op = "ADD" -> V64(wrapping_add(x, y), junk)
          [] op = "SUB" -> V64(wrapping_sub(x, y), junk)
          [] op = "MUL" -> V64(wrapping_mul(x, y), junk)
          \* Wrapping's Div panics on a zero divisor
          [] op = "QUO" -> IF IsZeroB(y) THEN NoV64 ELSE V64(wrapping_div(x, y, signed), junk)

\* macro binary_op_int_float, the integer arms (the float arms use union_op on
\* F32/F64, which this model does not evaluate)
binary_op_int_float(t, a, b, op, junk) ==
    CASE t = "Int" -> union_op_wrap(a, b, 8, TRUE, op, junk)
      [] t = "Int8" -> union_op_wrap(a, b, 1, TRUE, op, junk)
      [] t = "Int16" -> union_op_wrap(a, b, 2, TRUE, op, junk)
      [] t = "Int32" -> union_op_wrap(a, b, 4, TRUE, op, junk)
      [] t = "Int64" -> union_op_wrap(a, b, 8, TRUE, op, junk)
      [] t = "Uint" -> union_op_wrap(a, b, 8, FALSE, op, junk)
      [] t = "UintPtr" -> union_op_wrap(a, b, 8, FALSE, op, junk)
      [] t = "Uint8" -> union_op_wrap(a, b, 1, FALSE, op, junk)
      [] t = "Uint16" -> union_op_wrap(a, b, 2, FALSE, op, junk)
      [] t = "Uint32" -> union_op_wrap(a, b, 4, FALSE, op, junk)
      [] t = "Uint64" -> union_op_wrap(a, b, 8, FALSE, op, junk)
      [] OTHER -> NoV64

binary_op_add(a, b, t, junk) == binary_op_int_float(t, a, b, "ADD", junk)
binary_op_sub(a, b, t, junk) == binary_op_int_float(t, a, b, "SUB", junk)
binary_op_mul(a, b, t, junk) == binary_op_int_float(t, a, b, "MUL", junk)
binary_op_quo(a, b, t, junk) == binary_op_int_float(t, a, b, "QUO", junk)

\* x << k and x >> k on the bytes of one field, for k below the width: whole
\* bytes move by k \div 8, bits by k % 8; >> fills with the sign of a signed
\* field
RECURSIVE Pow2(_)
Pow2(r) == IF r = 0 THEN 1 ELSE 2 * Pow2(r - 1)
ByteAt(x, i, fill) == IF i < 1 THEN 0 ELSE IF i > Len(x) THEN fill ELSE x[i]
shl(x, k) ==
    [i \in 1..Len(x) |->
        ((ByteAt(x, i - (k \div 8), 0) * Pow2(k % 8)) % 256)
            + (ByteAt(x, i - (k \div 8) - 1, 0) \div Pow2(8 - (k % 8)))]
shr(x, k, fill) ==
    [i \in 1..Len(x) |->
        (ByteAt(x, i + (k \div 8), fill) \div Pow2(k % 8))
            + ((ByteAt(x, i + (k \div 8) + 1, fill) * Pow2(8 - (k % 8))) % 256)]
shift_by(x, k, op, signed) ==
    IF op = "checked_shl" THEN shl(x, k)
    ELSE shr(x, k, IF signed /\ TopBit(x) = 1 THEN 255 ELSE 0)
\* the u32 shift amount is below the width of a field of n bytes
InWidth(b, n) == IsZeroB(Tail(b)) /\ b[1] < 8 * n

\* wrapping_shl and wrapping_shr, which mask the amount to the width; used
\* here as the slip of union_shift
union_shift_wrapping(a, b, n, signed, op, junk) ==
    V64(shift_by(Field(a, n), b[1] % (8 * n), op, signed), junk)

\* macro union_shift: a.field.checked_shl(b).unwrap_or(0) in a new union;
\* checked_shl and checked_shr are None for an amount not below the width
union_shift(a, b, n, signed, op, junk) ==
    IF InWidth(b, n) THEN V64(shift_by(Field(a, n), b[1], op, signed), junk)
    ELSE V64(Zeros(n), junk)

\* macro shift_int
shift_int(t, a, b, op, junk) ==
    CASE t = "Int" -> union_shift(a, b, 8, TRUE, op, junk)
      [] t = "Int8" -> union_shift(a, b, 1, TRUE, op, junk)
      [] t = "Int16" -> union_shift(a, b, 2, TRUE, op, junk)
      [] t = "Int32" -> union_shift(a, b, 4, TRUE, op, junk)
      [] t = "Int64" -> union_shift(a, b, 8, TRUE, op, junk)
      [] t = "Uint" -> union_shift(a, b, 8, FALSE, op, junk)
      [] t = "UintPtr" -> union_shift(a, b, 8, FALSE, op, junk)
      [] t = "Uint8" -> union_shift(a, b, 1, FALSE, op, junk)
      [] t = "Uint16" -> union_shift(a, b, 2, FALSE, op, junk)
      [] t = "Uint32" -> union_shift(a, b, 4, FALSE, op, junk)
      [] t = "Uint64" -> union_shift(a, b, 8, FALSE, op, junk)
      [] OTHER -> NoV64

\* GosValue64::get_uint32: the first four bytes of the cell
get_uint32(c) == Field(c, 4)
\* GosValue64::binary_op_shl and binary_op_shr, on a u32 amount
binary_op_shl(a, b, t, junk) == shift_int(t, a, b, "checked_shl", junk)
binary_op_shr(a, b, t, junk) == shift_int(t, a, b, "checked_shr", junk)

\* GosValue64::binary_op, the arithmetic and the shift opcodes
binary_op(a, b, t, op, junk) ==
    CASE op = "ADD" -> binary_op_add(a, b, t, junk)
      [] op = "SUB" -> binary_op_sub(a, b, t, junk)
      [] op = "MUL" -> binary_op_mul(a, b, t, junk)
      [] op = "QUO" -> binary_op_quo(a, b, t, junk)
      [] op = "SHL" -> binary_op_shl(a, get_uint32(b), t, junk)
      [] op = "SHR" -> binary_op_shr(a, get_uint32(b), t, junk)
      [] OTHER -> NoV64

\* the build's arithmetic on overflow: a panic with overflow checks (debug),
\* two's complement without (release)
Builds == {"debug", "release"}
\* -x on a signed field
neg_signed(c, n, build) ==
    IF Field(c, n) = SMin(n) /\ build = "debug" THEN NoV64
    ELSE [c EXCEPT !.data = wrapping_neg(Field(c, n)) \o SubSeq(c.data, n + 1, 8)]
\* ((!0) ^ x) + 1 on an unsigned field; the + is the primitive's
neg_unsigned(c, n, build) ==
    IF NotB(Field(c, n)) = AllOnes(n) /\ build = "debug" THEN NoV64
    ELSE [c EXCEPT !.data = AddC(NotB(Field(c, n)), One(n), 0) \o SubSeq(c.data, n + 1, 8)]
\* -x on a float field: the sign bit flips
neg_float(c, n) ==
    [c EXCEPT !.data[n] = (c.data[n] + 128) % 256]
\* GosValue64::unary_negate: the field the type names is assigned in place;
\* no arm for UintPtr (_ => unreachable!())
unary_negate(c, t, build) ==
    CASE t \in {"Int", "Int64"} -> neg_signed(c, 8, build)
      [] t = "Int8" -> neg_signed(c, 1, build)
      [] t = "Int16" -> neg_signed(c, 2, build)
      [] t = "Int32" -> neg_signed(c, 4, build)
      [] t = "Float32" -> neg_float(c, 4)
      [] t = "Float64" -> neg_float(c, 8)
      [] t \in {"Uint", "Uint64"} -> neg_unsigned(c, 8, build)
      [] t = "Uint8" -> neg_unsigned(c, 1, build)
      [] t = "Uint16" -> neg_unsigned(c, 2, build)
      [] t = "Uint32" -> neg_unsigned(c, 4, build)
      [] OTHER -> NoV64

(***************************************************************************)
(* The value layer as a state machine                                      *)
(***************************************************************************)
Small(n) == {FromNat(k, n) : k \in 0..MaxSmall}
Anchors(n) == {Zeros(n), SMax(n), SMin(n), AllOnes(n)}
IntOperands(n) ==
    {wrapping_add(x, s) : x \in Anchors(n), s \in Small(n)}
        \cup {wrapping_sub(x, s) : x \in Anchors(n), s \in Small(n)}

\* +0, -0, 1.0, two NaNs with different payloads
F32Operands == {<<0, 0, 0, 0>>, <<0, 0, 0, 128>>, <<0, 0, 128, 63>>,
                <<0, 0, 192, 127>>, <<1, 0, 192, 127>>}
F64Operands == {<<0, 0, 0, 0, 0, 0, 0, 0>>, <<0, 0, 0, 0, 0, 0, 0, 128>>,
                <<0, 0, 0, 0, 0, 0, 240, 63>>, <<0, 0, 0, 0, 0, 0, 248, 127>>,
                <<1, 0, 0, 0, 0, 0, 248, 127>>}
StrOperands == {<<>>, <<97>>, <<97, 98>>}

PayloadsOf(t) ==
    CASE t \in IntTags -> IntOperands(NBytes(t))
      [] t = "Bool" -> {<<0>>, <<1>>}
      [] t = "Float32" -> F32Operands
      [] t = "Float64" -> F64Operands
      [] t = "Complex64" -> {x \o y : x \in F32Operands, y \in {<<0, 0, 0, 0>>, <<0, 0, 0, 128>>}}
      [] t = "Complex128" -> {x \o y : x \in F64Operands, y \in {<<0, 0, 0, 0, 0, 0, 0, 0>>}}
      [] t = "Str" -> StrOperands
      [] t \in {"Function", "Package"} -> Small(8)

PlainTags == ScalarTags \cup {"Str", "Function", "Package"}
ValuesOf(t) ==
    IF t = "Named"
    THEN {Named(GosValue(u, d), 1) : u \in {"Int8"}, d \in PayloadsOf("Int8")}
             \cup {Named(GosValue("Float64", d), 1) : d \in F64Operands}
    ELSE {GosValue(t, d) : d \in PayloadsOf(t)}

NoRes ==
    [op |-> "", out |-> Panicked, cell |-> NoV64, eq |-> FALSE, ha |-> <<>>, hb |-> <<>>,
     amount |-> <<>>, build |-> ""]

ValIdle == vphase = "off" /\ va = Panicked /\ vb = Panicked /\ vres = NoRes

ValInit ==
    /\ vphase = "input"
    /\ \E t \in PlainTags \cup {"Named"} : va \in ValuesOf(t) /\ vb \in ValuesOf(t)
    /\ vres = NoRes

\* v -> GosValue64::from_v128(v) -> get_v128(typ(v))
ApplyRoundTrip ==
    /\ vphase = "input"
    /\ \E junk \in {0, 255} :
          LET c == from_v128(va, junk)
          IN  vres' = [NoRes EXCEPT !.op = "from_v128", !.cell = c,
                          !.out = IF c.ok THEN get_v128(c, va.tag) ELSE Panicked]
    /\ vphase' = "done"
    /\ UNCHANGED <<va, vb>>
    /\ UNCHANGED <<tc, cgvars, objvars, vm>>

\* GosValue64::binary_op on the cells of two integers of one type
ApplyBinaryOp ==
    /\ vphase = "input"
    /\ va.tag \in IntTags
    /\ \E op \in ArithOps, junk \in {0, 255} :
          LET c == binary_op(from_v128(va, junk), from_v128(vb, junk), va.tag, op, junk)
          IN  vres' = [NoRes EXCEPT !.op = op, !.cell = c,
                          !.out = IF c.ok THEN get_v128(c, va.tag) ELSE Panicked]
    /\ vphase' = "done"
    /\ UNCHANGED <<va, vb>>
    /\ UNCHANGED <<tc, cgvars, objvars, vm>>

\* the u32 shift amounts: around the widths 8, 16, 32 and 64, and beyond a byte
ShiftAmounts ==
    {FromNat(k, 4) : k \in {0, 1, 7, 8, 9, 15, 16, 31, 32, 33, 63, 64, 65}}
        \cup {<<0, 1, 0, 0>>, <<1, 0, 0, 128>>, AllOnes(4)}

\* GosValue64::binary_op with SHL or SHR on the cell of an integer and the
\* cell of a u32 amount
ApplyShift ==
    /\ vphase = "input"
    /\ va.tag \in IntTags
    /\ \E op \in {"SHL", "SHR"}, b \in ShiftAmounts, junk \in {0, 255} :
       \E c \in {binary_op(from_v128(va, junk), V64(b, junk), va.tag, op, junk)} :
          vres' = [NoRes EXCEPT !.op = op, !.cell = c, !.amount = b,
                      !.out = IF c.ok THEN get_v128(c, va.tag) ELSE Panicked]
    /\ vphase' = "done"
    /\ UNCHANGED <<va, vb>>
    /\ UNCHANGED <<tc, cgvars, objvars, vm>>

\* GosValue64::unary_negate on the cell of a number, in either build
ApplyUnaryNegate ==
    /\ vphase = "input"
    /\ va.tag \in IntTags \cup FloatTags
    /\ \E build \in Builds, junk \in {0, 255} :
       \E c \in {unary_negate(from_v128(va, junk), va.tag, build)} :
          vres' = [NoRes EXCEPT !.op = "NEG", !.cell = c, !.build = build,
                      !.out = IF c.ok THEN get_v128(c, va.tag) ELSE Panicked]
    /\ vphase' = "done"
    /\ UNCHANGED <<va, vb>>
    /\ UNCHANGED <<tc, cgvars, objvars, vm>>

\* a == b, hash(a), hash(b) for two values of a hashable variant
ApplyEqHash ==
    /\ vphase = "input"
    /\ va.tag \in HashableTags
    /\ vres' = [NoRes EXCEPT !.op = "eq", !.eq = GosEq(va, vb),
                   !.ha = GosHash(va), !.hb = GosHash(vb)]
    /\ vphase' = "done"
    /\ UNCHANGED <<va, vb>>
    /\ UNCHANGED <<tc, cgvars, objvars, vm>>


(***************************************************************************)
(* Reference arithmetic on mathematical integers (types of 8 and 16 bits)  *)
(***************************************************************************)
RECURSIVE ToNat(_)
ToNat(b) == IF b = <<>> THEN 0 ELSE Head(b) + 256 * ToNat(Tail(b))
Pow256(n) == IF n = 1 THEN 256 ELSE 65536
ToInt(b, signed) ==
    IF signed /\ TopBit(b) = 1 THEN ToNat(b) - Pow256(Len(b)) ELSE ToNat(b)
\* x * y modulo m without leaving 32 bits, for x, y < 65536
MulMod(x, y, m) == ((x * (y % 256)) + 256 * ((x * (y \div 256)) % m)) % m
Abs(x) == IF x < 0 THEN -x ELSE x
\* the quotient truncated towards zero
TruncDiv(x, y) == IF (x < 0) = (y < 0) THEN Abs(x) \div Abs(y) ELSE -(Abs(x) \div Abs(y))
\* the two's-complement result of op modulo 2^(8n), n <= 2, y # 0 for QUO
Expected(op, a, b, n, signed) ==
    LET m == Pow256(n)
        x == ToInt(a, signed)
        y == ToInt(b, signed)
    IN  CASE op = "ADD" -> FromNat((x + y) % m, n)
          [] op = "SUB" -> FromNat((x - y) % m, n)
          [] op = "MUL" -> FromNat(MulMod(ToNat(a), ToNat(b), m), n)
          [] op = "QUO" -> FromNat(TruncDiv(x, y) % m, n)
Low2(b) == SubSeq(b, 1, 2)

(***************************************************************************)
(* Properties of the value layer                                           *)
(***************************************************************************)
RoundTripDone == vphase = "done" /\ vres.op = "from_v128"
RoundTripOk == vres.cell.ok /\ vres.out.tag = va.tag /\ GosEq(vres.out, va)

\* C8 as stated: for every scalar value v of value type T, from_v128(v) yields a
\* cell c with c.get_v128(T) == v
C8_EveryScalar == (RoundTripDone /\ va.tag \in ScalarTags) => RoundTripOk

\* C8, amended: the round trip holds for every scalar of a variant from_v128 has
\* an arm for, which is every scalar variant but Complex128 (a boxed pair of
\* 64-bit floats); for Complex128 from_v128 yields no cell
C8_RoundTrip ==
    /\ (RoundTripDone /\ va.tag \in ScalarTags \ {"Complex128"}) => RoundTripOk
    /\ (RoundTripDone /\ va.tag = "Complex128") => ~vres.cell.ok

\* a complex64 with distinct halves went through the cell and came back
C8_Witness ==
    /\ RoundTripDone
    /\ va.tag = "Complex64" /\ Lo(va.data) # Hi(va.data)
    /\ vres.cell.ok /\ vres.out = va

BinOpDone == vphase = "done" /\ vres.op \in ArithOps

\* C9: add, sub, mul and quo on every integer type of width w return the
\* two's-complement result modulo 2^w: no overflow panics, the result has the
\* operand's type, for the 8- and 16-bit types it is the mathematical result
\* reduced modulo 2^w, for the wider types its low 16 bits are those of the
\* mathematical result (add, sub, mul) and the boundary cases wrap:
\* add(MAX, 1) = MIN, sub(MIN, 1) = MAX, quo(MIN, -1) = MIN, quo(a, 1) = a
C9_Wrapping ==
    BinOpDone =>
        LET t == va.tag
            n == NBytes(t)
            signed == t \in SignedTags
            op == vres.op
            a == va.data
            b == vb.data
            r == vres.out.data
        IN  /\ (op = "QUO" /\ IsZeroB(b)) => ~vres.cell.ok
            /\ ~(op = "QUO" /\ IsZeroB(b)) =>
                  /\ vres.cell.ok /\ vres.out.tag = t /\ Len(r) = n
                  /\ n <= 2 => r = Expected(op, a, b, n, signed)
                  /\ (n > 2 /\ op # "QUO") => Low2(r) = Expected(op, Low2(a), Low2(b), 2, FALSE)
                  /\ (op = "ADD" /\ a = MaxOf(t) /\ b = One(n)) => r = MinOf(t)
                  /\ (op = "SUB" /\ a = MinOf(t) /\ b = One(n)) => r = MaxOf(t)
                  /\ (op = "QUO" /\ b = One(n)) => r = a
                  /\ (op = "QUO" /\ a = b) => r = One(n)
                  /\ (op = "QUO" /\ signed /\ a = SMin(n) /\ b = AllOnes(n)) => r = SMin(n)
                  /\ (op = "MUL" /\ signed /\ b = AllOnes(n)) => r = wrapping_neg(a)

\* add(MAX, 1) was computed on a 64-bit signed integer and gave MIN
C9_Witness ==
    /\ BinOpDone /\ vres.op = "ADD" /\ va.tag = "Int64"
    /\ va.data = SMax(8) /\ vb.data = One(8)
    /\ vres.cell.ok /\ vres.out.data = SMin(8)

EqHashDone == vphase = "done" /\ vres.op = "eq"

\* C10: for all values a and b of hashable variants, a == b implies
\* hash(a) == hash(b)
C10_EqImpliesHash == (EqHashDone /\ vres.eq) => vres.ha = vres.hb

\* the same for the variants that hold no float directly
C10_EqImpliesHashNoFloat ==
    (EqHashDone /\ vres.eq /\ va.tag \notin FloatTags
        /\ ~(va.tag = "Named" /\ va.ntag \in FloatTags)) => vres.ha = vres.hb

(***************************************************************************)
(* Code generator: function objects (vm/src/objects.rs is not among the    *)
(* sources; FunctionVal and EntIndex follow the specification's function   *)
(* object: slot table, entity -> slot map, upvalue table, instructions)    *)
(***************************************************************************)
\* nesting of functions, statements per file (statement lowering, resolution),
\* left-hand sides per assignment
MaxFuncs == 4
MaxStmts == 2
MaxResStmts == 4
MaxLhs == 2

\* the declared objects (EntityKey) of the modelled programs, "g", "f", the
\* bool "q" and the channels "ch" and "dh" at package level, and the blank
\* identifier
EntityKeys == {"a", "b", "c", "e", "n", "m", "p", "s", "t", "x", "g", "f", "q", "ch", "dh"}
BlankIdent == "_"

EntIndex(k, i, id) == [k |-> k, i |-> i, id |-> id]
LocalVar(i) == EntIndex("LocalVar", i, "")
UpValue(i) == EntIndex("UpValue", i, "")
PackageMember(ident) == EntIndex("PackageMember", 0, ident)
BuiltInVal(op) == EntIndex("BuiltInVal", 0, op)
ConstIdx(i) == EntIndex("Const", i, "")
Blank == EntIndex("Blank", 0, "")
NoEnt == EntIndex("None", 0, "")

\* GosValue::new_function: an empty function object
new_function(flag) ==
    [code |-> <<>>, entities |-> [e \in EntityKeys |-> NoEnt], nlocals |-> 0,
     up_ptrs |-> <<>>, flag |-> flag]

entity_index(f, e) == f.entities[e]
\* FunctionVal::add_local: the next local slot, entered in the entity map
add_local(f, e) ==
    [f EXCEPT !.entities[e] = LocalVar(f.nlocals), !.nlocals = @ + 1]
\* FunctionVal::try_add_upvalue: the entity's slot if it has one, else a new
\* descriptor at the end of the upvalue table
try_add_upvalue(f, e, uv) ==
    IF f.entities[e] # NoEnt THEN f
    ELSE [f EXCEPT !.up_ptrs = Append(@, uv), !.entities[e] = UpValue(Len(f.up_ptrs))]
ValueDesc(func, index, typ) == [func |-> func, index |-> index, typ |-> typ]

\* instruction indices count from 0: code[i + 1] is the instruction at index i
next_code_index(f) == Len(f.code)
offset(f, loc) == Len(f.code) - loc
InstAt(f, i) == f.code[i + 1]
set_imm(f, i, imm) == [f EXCEPT !.code[i + 1].imm = imm]

\* one instruction: opcode, two type slots, immediate, the 8-bit stack index
\* of a store or cast, the opcode fused into a store; who names the visitor
\* step that emitted it (not part of the encoding)
Inst(op, t0, t1, imm, idx, fop, who) ==
    [op |-> op, t0 |-> t0, t1 |-> t1, imm |-> imm, idx |-> idx, fop |-> fop, who |-> who]
Who(r, n) == [r |-> r, n |-> n]
emit_inst(f, ins) == [f EXCEPT !.code = Append(@, ins)]
emit_code(f, op, who) == emit_inst(f, Inst(op, "", "", 0, 0, "", who))
emit_code_with_imm(f, op, imm, who) == emit_inst(f, Inst(op, "", "", imm, 0, "", who))
emit_code_with_type(f, op, t, who) == emit_inst(f, Inst(op, t, "", 0, 0, "", who))

(***************************************************************************)
(* Emitter (codegen/src/emit.rs is not among the sources; the operations   *)
(* follow the contracts of the specification's Emitter section)            *)
(***************************************************************************)
\* LeftHandSide: Primitive(EntIndex) | IndexSelExpr(info) | Deref(index)
Primitive(ent) ==
    [k |-> "Primitive", ent |-> ent, index |-> 0, imm_index |-> -1, t1 |-> "", t2 |-> "",
     typ |-> ""]
IndexSelInfo(index, imm_index, t1, t2, typ) ==
    [k |-> "IndexSelExpr", ent |-> NoEnt, index |-> index, imm_index |-> imm_index,
     t1 |-> t1, t2 |-> t2, typ |-> typ]
Deref(index) ==
    [k |-> "Deref", ent |-> NoEnt, index |-> index, imm_index |-> -1, t1 |-> "", t2 |-> "",
     typ |-> ""]
\* IndexSelInfo::stack_space: the container, and the index when it is on the stack
stack_space(info) == IF info.t2 # "" THEN 2 ELSE 1
with_index(info, i) == [info EXCEPT !.index = i]

emit_load(f, index, typ, who) ==
    CASE index.k = "LocalVar" -> emit_inst(f, Inst("LOAD_LOCAL", typ, "", index.i, 0, "", who))
      [] index.k = "UpValue" -> emit_inst(f, Inst("LOAD_UPVALUE", typ, "", index.i, 0, "", who))
      [] index.k = "PackageMember" -> emit_inst(f, Inst("LOAD_PKG_FIELD", typ, index.id, 0, 0, "", who))
      [] index.k = "Const" -> emit_inst(f, Inst("PUSH_CONST", typ, "", index.i, 0, "", who))
      [] index.k = "BuiltInVal" -> emit_inst(f, Inst(index.id, typ, "", 0, 0, "", who))

\* emit_store: nothing for the blank identifier; else one STORE of the shape of
\* lhs, reading the stack cell rhs_index, with op fused when given
emit_store(f, lhs, rhs_index, op, typ, who) ==
    CASE lhs.k = "Primitive" /\ lhs.ent = Blank -> f
      [] lhs.k = "Primitive" /\ lhs.ent.k = "LocalVar" ->
            emit_inst(f, Inst("STORE_LOCAL", typ, "", lhs.ent.i, rhs_index, op, who))
      [] lhs.k = "Primitive" /\ lhs.ent.k = "UpValue" ->
            emit_inst(f, Inst("STORE_UPVALUE", typ, "", lhs.ent.i, rhs_index, op, who))
      [] lhs.k = "Primitive" /\ lhs.ent.k = "PackageMember" ->
            emit_inst(f, Inst("STORE_PKG_FIELD", typ, lhs.ent.id, 0, rhs_index, op, who))
      [] lhs.k = "IndexSelExpr" /\ lhs.typ = "Indexing" ->
            emit_inst(f, Inst(IF lhs.imm_index >= 0 THEN "STORE_INDEX_IMM" ELSE "STORE_INDEX",
                              typ, lhs.t1, lhs.index, rhs_index, op, who))
      [] lhs.k = "IndexSelExpr" /\ lhs.typ = "StructField" ->
            emit_inst(f, Inst("STORE_FIELD_IMM", typ, lhs.t1, lhs.index, rhs_index, op, who))
      [] lhs.k = "Deref" ->
            emit_inst(f, Inst("STORE_DEREF", typ, "", lhs.index, rhs_index, op, who))

emit_cast(f, t0, t1, rhs_index, index, who) ==
    emit_inst(f, Inst("CAST", t0, t1, index, rhs_index, "", who))
emit_pop(f, n, who) == emit_inst(f, Inst("POP", "", "", n, 0, "", who))
emit_push_imm(f, typ, imm, who) == emit_inst(f, Inst("PUSH_IMM", typ, "", imm, 0, "", who))
emit_return(f, who) == emit_inst(f, Inst("RETURN", "", "", 0, 0, "", who))
emit_literal(f, typ, who) == emit_inst(f, Inst("LITERAL", typ, "", 0, 0, "", who))

(***************************************************************************)
(* TypeLookup (codegen/src/types.rs is not among the sources): the type    *)
(* checker's answers for the modelled programs.  NI is a named interface   *)
(* type, MyInt a named integer type, T a struct { f int; h I }.            *)
(***************************************************************************)
get_use_tc_type(e) ==
    CASE e \in {"a", "b", "x", "g"} -> "int"
      [] e = "c" -> "MyInt"
      [] e = "e" -> "I"
      [] e = "n" -> "NI"
      [] e \in {"m", "q"} -> "bool"
      [] e \in {"ch", "dh"} -> "chan int"
      [] e = "p" -> "*int"
      [] e = "s" -> "[]int"
      [] e = "t" -> "T"
      [] e = "f" -> "func"

value_type_from_tc(t) ==
    CASE t = "int" -> "Int"
      [] t = "string" -> "Str"
      [] t = "bool" -> "Bool"
      [] t = "I" -> "Interface"
      [] t \in {"NI", "MyInt"} -> "Named"
      [] t = "untyped nil" -> "Nil"
      [] t = "*int" -> "Pointer"
      [] t = "[]int" -> "Slice"
      [] t = "T" -> "Struct"
      [] t = "func" -> "Closure"
      [] t = "chan int" -> "Channel"
      [] t = "type" -> "Metadata"
      \* a tuple is no value: any tag but Interface and Nil
      [] t = "tuple" -> "Tuple"

underlying_value_type_from_tc(t) ==
    CASE t = "NI" -> "Interface"
      [] t = "MyInt" -> "Int"
      [] OTHER -> value_type_from_tc(t)

get_use_value_type(e) == value_type_from_tc(get_use_tc_type(e))

(***************************************************************************)
(* CodeGen: identifier resolution.  Where a step's result is read more     *)
(* than once it is bound as  CHOOSE out \in {e(x) : x \in {step}} : TRUE,  *)
(* which is e(step) with step evaluated once.                              *)
(***************************************************************************)
current_func(fs, stk) == fs[stk[Len(stk)]]
WithCur(fs, stk, f) == [fs EXCEPT ![stk[Len(stk)]] = f]
\* current_func_mut!(self).emit_inst(..)
EmitCur(fs, stk, ins) == WithCur(fs, stk, emit_inst(current_func(fs, stk), ins))
SetMax(S) == CHOOSE x \in S : \A y \in S : y <= x

\* the enclosing functions searched when the package constructor is not skipped
enclosing_with_ctor(fs, stk, ident) ==
    {j \in 1..(Len(stk) - 1) : entity_index(fs[stk[j]], ident) # NoEnt}

\* func_stack.iter().skip(1).rev().skip(1): the positions on func_stack, other
\* than the package constructor's and the current function's, of the
\* functions that know ident
enclosing(fs, stk, ident) ==
    {j \in 2..(Len(stk) - 1) : entity_index(fs[stk[j]], ident) # NoEnt}

\* resolve_var_ident: 1. the current function's entity map; 2. the nearest
\* enclosing function that knows ident, whose slot becomes an upvalue of the
\* current function; 3. a package member
resolve_var_ident(fs, stk, ident) ==
    IF entity_index(current_func(fs, stk), ident) # NoEnt
    THEN [fs |-> fs, index |-> entity_index(current_func(fs, stk), ident)]
    ELSE IF enclosing(fs, stk, ident) # {}
    THEN CHOOSE out \in {
            [fs |-> WithCur(fs, stk, f2), index |-> entity_index(f2, ident)]
          : f2 \in {try_add_upvalue(current_func(fs, stk), ident,
                       ValueDesc(stk[SetMax(enclosing(fs, stk, ident))],
                                 entity_index(fs[stk[SetMax(enclosing(fs, stk, ident))]], ident).i,
                                 get_use_value_type(ident)))}} : TRUE
    ELSE [fs |-> fs, index |-> PackageMember(ident)]

\* add_local_or_resolve_ident: (EntIndex, Option<TCTypeKey>); "none" is None
add_local_or_resolve_ident(fs, stk, ikey, is_def) ==
    IF ikey = BlankIdent THEN [fs |-> fs, index |-> Blank, t |-> "none"]
    ELSE IF is_def
    THEN CHOOSE out \in {
            [fs |-> WithCur(fs, stk, f2), index |-> entity_index(f2, ikey), t |-> get_use_tc_type(ikey)]
          : f2 \in {add_local(current_func(fs, stk), ikey)}} : TRUE
    ELSE CHOOSE out \in {
            [fs |-> r.fs, index |-> r.index, t |-> get_use_tc_type(ikey)]
          : r \in {resolve_var_ident(fs, stk, ikey)}} : TRUE

(***************************************************************************)
(* CodeGen: expressions.  An expression is [kind, ent, typ, tuple, right]:  *)
(*   lit    a basic literal of type typ                                    *)
(*   nil    the identifier nil                                             *)
(*   ident  a use of the variable ent                                      *)
(*   call   f() for a package function f with the result types tuple       *)
(*   land, lor   ent && right, ent || right for bool variables ent, right  *)
(***************************************************************************)
Expr(kind, ent, typ, tuple) ==
    [kind |-> kind, ent |-> ent, typ |-> typ, tuple |-> tuple, right |-> ""]
Lit(t) == Expr("lit", "", t, <<t>>)
NilExpr == Expr("nil", "", "untyped nil", <<"untyped nil">>)
Ident(e) == Expr("ident", e, get_use_tc_type(e), <<get_use_tc_type(e)>>)
Call(ts) == Expr("call", "f", IF Len(ts) = 1 THEN ts[1] ELSE "tuple", ts)
BinaryOf(op, l, r) == [Expr(op, l, "bool", <<"bool">>) EXCEPT !.right = r]
Binary(op, e) == BinaryOf(op, e, e)
\* a call of the function value callee, without arguments or results
CallOf(callee) == Expr("call", callee, "tuple", <<>>)
\* a call of a built-in function on one argument: close(arg) is Builtin("CLOSE", arg)
Builtin(opcode, arg) == Expr("builtin", arg, opcode, <<>>)
NoExpr == Expr("none", "", "none", <<>>)

get_expr_tc_type(e) == e.typ
get_expr_value_type(e) == value_type_from_tc(e.typ)
get_tuple_tc_types(e) == e.tuple

\* visit_expr_ident: resolve, then load
visit_expr_ident(fs, stk, ident, who) ==
    CHOOSE out \in {
        WithCur(r.fs, stk, emit_load(current_func(r.fs, stk), r.index, get_use_value_type(ident), who))
      : r \in {resolve_var_ident(fs, stk, ident)}} : TRUE

\* visit_expr_binary_right with the conditional jump patched one instruction
\* too far
visit_expr_binary_right_far(fs, stk, op, right, who) ==
    CHOOSE out \in {
        WithCur(f4, stk,
                set_imm(current_func(f4, stk), next_code_index(current_func(fs, stk)) - 1,
                        next_code_index(current_func(f4, stk))
                            - next_code_index(current_func(fs, stk))))
      : f4 \in {EmitCur(EmitCur(visit_expr_ident(fs, stk, right, who), stk,
                                Inst("JUMP", "", "", 1, 0, "", who)), stk,
                        Inst(IF op = "land" THEN "PUSH_FALSE" ELSE "PUSH_TRUE", "Bool", "", 0, 0, "", who))}}
      : TRUE
\* visit_expr_binary for && and ||, from the mark behind the conditional jump:
\* the right operand, JUMP 1, PUSH_FALSE / PUSH_TRUE, and the conditional
\* jump patched to land on that push
visit_expr_binary_right(fs, stk, op, right, who) ==
    CHOOSE out \in {
        WithCur(f4, stk,
                set_imm(current_func(f4, stk), next_code_index(current_func(fs, stk)) - 1,
                        next_code_index(current_func(f4, stk))
                            - next_code_index(current_func(fs, stk)) - 1))
      : f4 \in {EmitCur(EmitCur(visit_expr_ident(fs, stk, right, who), stk,
                                Inst("JUMP", "", "", 1, 0, "", who)), stk,
                        Inst(IF op = "land" THEN "PUSH_FALSE" ELSE "PUSH_TRUE", "Bool", "", 0, 0, "", who))}}
      : TRUE
visit_expr_binary(fs, stk, op, left, right, who) ==
    visit_expr_binary_right(
        EmitCur(visit_expr_ident(fs, stk, left, who), stk,
                Inst(IF op = "land" THEN "JUMP_IF_NOT" ELSE "JUMP_IF", "", "", 0, 0, "", who)),
        stk, op, right, who)

\* gen_call: a built-in function becomes its opcode behind its argument,
\* whatever the style; a function value without arguments becomes the
\* callee, PRE_CALL and CALL(style), the style Default left blank in the
\* instruction; the immediate of CALL keeps the callee's number of results
gen_call(fs, stk, e, style, who) ==
    IF e.kind = "builtin"
    THEN EmitCur(visit_expr_ident(fs, stk, e.ent, who), stk, Inst(e.typ, "", "", 1, 0, "", who))
    ELSE EmitCur(EmitCur(visit_expr_ident(fs, stk, e.ent, who), stk,
                         Inst("PRE_CALL", "", "", 0, 0, "", who)),
                 stk, Inst("CALL", IF style = "Default" THEN "" ELSE style, "",
                           Len(e.tuple), 0, "", who))

visit_expr(fs, stk, e, who) ==
    CASE e.kind = "lit" ->
            WithCur(fs, stk, emit_load(current_func(fs, stk), ConstIdx(0), get_expr_value_type(e), who))
      [] e.kind = "nil" ->
            WithCur(fs, stk, emit_load(current_func(fs, stk), BuiltInVal("PUSH_NIL"), "Nil", who))
      [] e.kind = "ident" -> visit_expr_ident(fs, stk, e.ent, who)
      [] e.kind = "call" -> gen_call(fs, stk, e, "Default", who)
      [] e.kind \in {"land", "lor"} -> visit_expr_binary(fs, stk, e.kind, e.ent, e.right, who)

(***************************************************************************)
(* CodeGen: assignments.  A left-hand side expression is [k, ent, ix, fld]:*)
(*   Ident     the variable ent, or the blank identifier                   *)
(*   Index     ent[0] (ix = "const") or ent[b] (ix = "var"), ent a []int   *)
(*   Selector  ent.f (fld = 0, an int) or ent.h (fld = 1, an I), ent a T   *)
(*   Star      *ent, ent a *int                                            *)
(***************************************************************************)
LhsExpr(k, ent, ix, fld) == [k |-> k, ent |-> ent, ix |-> ix, fld |-> fld]
LIdent(e) == LhsExpr("Ident", e, "", 0)
LIndex(e, ix) == LhsExpr("Index", e, ix, 0)
LSelector(e, fld) == LhsExpr("Selector", e, "", fld)
LStar(e) == LhsExpr("Star", e, "", 0)

\* get_expr_tc_type of a left-hand side
LhsTcType(l) ==
    CASE l.k = "Ident" -> IF l.ent = BlankIdent THEN "none" ELSE get_use_tc_type(l.ent)
      [] l.k = "Selector" -> IF l.fld = 1 THEN "I" ELSE "int"
      [] OTHER -> "int"

\* the closure of gen_assign over one left-hand side: its prefix goes onto the
\* stack and its LeftHandSide is returned with its type
gen_assign_lhs(fs, stk, token, l, who) ==
    CASE l.k = "Ident" ->
            CHOOSE out \in {
                [fs |-> r.fs, l |-> Primitive(r.index), t |-> r.t]
              : r \in {add_local_or_resolve_ident(fs, stk, l.ent,
                          /\ token = "DEFINE"
                          /\ l.ent # BlankIdent
                          /\ entity_index(current_func(fs, stk), l.ent) = NoEnt)}} : TRUE
      [] l.k = "Index" /\ l.ix = "const" ->
            [fs |-> visit_expr(fs, stk, Ident(l.ent), who),
             l |-> IndexSelInfo(0, 0, get_use_value_type(l.ent), "", "Indexing"),
             t |-> LhsTcType(l)]
      [] l.k = "Index" /\ l.ix # "const" ->
            [fs |-> visit_expr(visit_expr(fs, stk, Ident(l.ent), who), stk, Ident("b"), who),
             l |-> IndexSelInfo(0, -1, get_use_value_type(l.ent), "Int", "Indexing"),
             t |-> LhsTcType(l)]
      [] l.k = "Selector" ->
            [fs |-> visit_expr(fs, stk, Ident(l.ent), who),
             l |-> IndexSelInfo(0, l.fld, get_use_value_type(l.ent), "", "StructField"),
             t |-> LhsTcType(l)]
      [] l.k = "Star" ->
            [fs |-> visit_expr(fs, stk, Ident(l.ent), who), l |-> Deref(0), t |-> LhsTcType(l)]

\* lhs_exprs.iter().map(..).collect(), from the i-th on, after those in acc
RECURSIVE gen_assign_lhs_all(_, _, _, _, _, _)
gen_assign_lhs_all(fs, stk, token, lhs_exprs, i, acc) ==
    IF i > Len(lhs_exprs) THEN [fs |-> fs, lhs |-> acc]
    ELSE CHOOSE out \in {
            gen_assign_lhs_all(one.fs, stk, token, lhs_exprs, i + 1,
                               Append(acc, [l |-> one.l, t |-> one.t]))
          : one \in {gen_assign_lhs(fs, stk, token, lhs_exprs[i], Who("prefix", i - 1))}} : TRUE

\* try_cast_to_iface: a CAST on the cell rhs_index when the destination's
\* underlying type is an interface and the source's is neither an interface
\* nor nil; returns the value type the store carries
try_cast_to_iface(f, lhs, rhs, rhs_index, who) ==
    IF /\ lhs # "none"
       /\ underlying_value_type_from_tc(lhs) = "Interface"
       /\ IF rhs # "none"
          THEN underlying_value_type_from_tc(rhs) \notin {"Interface", "Nil"}
          ELSE TRUE
    THEN [f |-> emit_cast(f, "Interface",
                          IF rhs # "none" THEN underlying_value_type_from_tc(rhs) ELSE "Slice",
                          rhs_index, 0, who),
          typ |-> "Interface"]
    ELSE [f |-> f, typ |-> value_type_from_tc(rhs)]

RECURSIVE visit_exprs(_, _, _, _)
visit_exprs(fs, stk, values, j) ==
    IF j > Len(values) THEN fs
    ELSE visit_exprs(visit_expr(fs, stk, values[j], Who("rhs", j - 1)), stk, values, j + 1)

RECURSIVE load_zeros(_, _, _, _)
load_zeros(f, n, t, j) ==
    IF j > n THEN f
    ELSE load_zeros(emit_load(f, ConstIdx(0), value_type_from_tc(t), Who("rhs", j - 1)), n, t, j + 1)

\* the stack index of the i-th value, taken as if the left-hand prefixes
\* always lay above the values
rhs_index_of_top(i, total_val, total_stack_space, lhs_on_stack_top) ==
    i - total_stack_space

\* let rhs_index = i - if lhs_on_stack_top { total_stack_space } else { total_val }
rhs_index_of(i, total_val, total_stack_space, lhs_on_stack_top) ==
    i - (IF lhs_on_stack_top THEN total_stack_space ELSE total_val)

\* the store of the loop body, by the shape of the left-hand side
store_one(f, l, rhs_index, typ, cidx, i) ==
    CASE l.k = "Primitive" -> emit_store(f, l, rhs_index, "", typ, Who("store", i))
      [] l.k = "IndexSelExpr" -> emit_store(f, with_index(l, cidx), rhs_index, "", typ, Who("store", i))
      [] l.k = "Deref" -> emit_store(f, Deref(cidx), rhs_index, "", typ, Who("store", i))

\* the loop over the left-hand sides: cast, store, advance the prefix index
\* ("the lhs of IndexSelExpr takes two spots")
RECURSIVE store_all(_, _, _, _, _, _, _, _)
store_all(f, lhs, types, i, total_val, total_stack_space, lhs_on_stack_top, cidx) ==
    IF i >= Len(lhs) THEN f
    ELSE CHOOSE out \in {
            store_all(f2, lhs, types, i + 1, total_val, total_stack_space, lhs_on_stack_top,
                      CASE lhs[i + 1].l.k = "Primitive" -> cidx
                        [] lhs[i + 1].l.k = "IndexSelExpr" -> cidx + 2
                        [] lhs[i + 1].l.k = "Deref" -> cidx + 1)
          : f2 \in {store_one(c.f, lhs[i + 1].l,
                              rhs_index_of(i, total_val, total_stack_space, lhs_on_stack_top),
                              c.typ, cidx, i)
                      : c \in {try_cast_to_iface(f, lhs[i + 1].t, types[i + 1],
                                   rhs_index_of(i, total_val, total_stack_space, lhs_on_stack_top),
                                   Who("cast", i))}}} : TRUE

RECURSIVE SumSeq(_)
SumSeq(q) == IF q = <<>> THEN 0 ELSE Head(q) + SumSeq(Tail(q))

\* a right-hand side: [k, values, typ]: Nothing (var x typ), Values, Range,
\* SelectRecv (the receive of a select clause, typ its operand mode)
RightHandSide(k, values, typ) == [k |-> k, values |-> values, typ |-> typ]
Values(vs) == RightHandSide("Values", vs, "")
Nothing(t) == RightHandSide("Nothing", <<>>, t)
Range(e) == RightHandSide("Range", <<e>>, "")
SelectRecv(e, mode) == RightHandSide("SelectRecv", <<e>>, mode)

\* gen_assign_def_var from "now the values should be on stack": one store per
\* left-hand side, then one POP of the values and of the prefixes
gen_assign_def_var_stores(f, lhs, types, lhs_on_stack_top) ==
    LET total_lhs_stack_space ==
            SumSeq([j \in 1..Len(lhs) |->
                CASE lhs[j].l.k = "Primitive" -> 0
                  [] lhs[j].l.k = "IndexSelExpr" -> stack_space(lhs[j].l)
                  [] lhs[j].l.k = "Deref" -> 1])
        total_pop ==
            Len(types) + SumSeq([j \in 1..Len(lhs) |->
                CASE lhs[j].l.k = "Primitive" -> 0
                  [] lhs[j].l.k = "IndexSelExpr" -> (IF lhs[j].l.t2 # "" THEN 1 ELSE 0) + 1
                  [] lhs[j].l.k = "Deref" -> 1])
    IN  emit_pop(store_all(f, lhs, types, 0, Len(types), total_lhs_stack_space + Len(types),
                           lhs_on_stack_top,
                           -(IF lhs_on_stack_top THEN total_lhs_stack_space
                             ELSE total_lhs_stack_space + Len(types))),
                 total_pop, Who("pop", 0))

\* the types of the values of a right-hand side for n left-hand sides
rhs_types(rhs, n) ==
    CASE rhs.k = "Nothing" -> [j \in 1..n |-> rhs.typ]
      [] rhs.k = "Values" ->
            IF Len(rhs.values) = n THEN [j \in 1..n |-> get_expr_tc_type(rhs.values[j])]
            ELSE get_tuple_tc_types(rhs.values[1])
      \* tkv[1..]: the key and value types of ranging over a []int
      [] rhs.k = "Range" -> <<"int", "int">>
      \* lhs.len() == 2 && mode == CommaOk: the tuple (int, bool) of <-ch
      [] rhs.k = "SelectRecv" ->
            IF n = 2 /\ rhs.typ = "CommaOk" THEN <<"int", "bool">> ELSE <<"int">>

\* gen_assign_def_var: the values onto the stack, then the stores and the POP;
\* returns the index of RANGE for a range clause, -1 (None) otherwise
gen_assign_def_var(fs, stk, lhs, rhs) ==
    CHOOSE out \in {
        [fs |-> WithCur(fs1, stk,
                        gen_assign_def_var_stores(current_func(fs1, stk), lhs,
                                                  rhs_types(rhs, Len(lhs)),
                                                  rhs.k = "SelectRecv")),
         \* range_marker = Some(func.next_code_index()) right before RANGE
         marker |-> IF rhs.k = "Range" THEN next_code_index(current_func(fs1, stk)) - 1 ELSE -1]
      : fs1 \in {CASE rhs.k = "Nothing" ->
                        WithCur(fs, stk, load_zeros(current_func(fs, stk), Len(lhs), rhs.typ, 1))
                   [] rhs.k = "Values" -> visit_exprs(fs, stk, rhs.values, 1)
                   \* the received values are on the stack already
                   [] rhs.k = "SelectRecv" -> fs
                   [] rhs.k = "Range" ->
                        EmitCur(EmitCur(visit_expr(fs, stk, rhs.values[1], Who("range", 0)), stk,
                                        Inst("RANGE_INIT", "Slice", "", 0, 0, "", Who("range", 0))),
                                stk, Inst("RANGE", "Slice", "", 0, 0, "", Who("rhs", 0)))}} : TRUE

\* a token table that fuses no opcode
simple_op_none(token) == ""

\* the opcode a compound-assignment token fuses into its store; "" for = and :=
simple_op(token) ==
    CASE token = "ADD_ASSIGN" -> "ADD"
      [] token = "SUB_ASSIGN" -> "SUB"
      [] token = "MUL_ASSIGN" -> "MUL"
      [] token = "QUO_ASSIGN" -> "QUO"
      [] token = "REM_ASSIGN" -> "REM"
      [] token = "AND_ASSIGN" -> "AND"
      [] token = "OR_ASSIGN" -> "OR"
      [] token = "XOR_ASSIGN" -> "XOR"
      [] token = "SHL_ASSIGN" -> "SHL"
      [] token = "SHR_ASSIGN" -> "SHR"
      [] token = "AND_NOT_ASSIGN" -> "AND_NOT"
      [] token \in {"ASSIGN", "DEFINE"} -> ""
CompoundTokens ==
    {"ADD_ASSIGN", "SUB_ASSIGN", "MUL_ASSIGN", "QUO_ASSIGN", "REM_ASSIGN", "AND_ASSIGN",
     "OR_ASSIGN", "XOR_ASSIGN", "SHL_ASSIGN", "SHR_ASSIGN", "AND_NOT_ASSIGN"}

\* gen_op_assign: the right operand (the immediate 1 of typ for ++ and --),
\* one store fused with op that finds the prefix right below the operand, one
\* POP of the operand and the prefix
gen_op_assign(fs, stk, left, op, right, typ) ==
    CHOOSE out \in {
        WithCur(fs1, stk,
            CASE left.k = "Primitive" ->
                   emit_pop(emit_store(current_func(fs1, stk), left, -1, op, typ, Who("store", 0)),
                            1, Who("pop", 0))
              [] left.k = "IndexSelExpr" ->
                   \* [... target, index, value] or [... target, value]
                   emit_pop(emit_store(current_func(fs1, stk),
                                       with_index(left, -stack_space(left) - 1), -1, op, typ,
                                       Who("store", 0)),
                            2 + (IF left.t2 # "" THEN 1 ELSE 0), Who("pop", 0))
              [] left.k = "Deref" ->
                   \* [... target, value]
                   emit_pop(emit_store(current_func(fs1, stk), Deref(-2), -1, op, typ, Who("store", 0)),
                            2, Who("pop", 0)))
      : fs1 \in {IF right # NoExpr THEN visit_expr(fs, stk, right, Who("rhs", 0))
                 ELSE WithCur(fs, stk, emit_push_imm(current_func(fs, stk), typ, 1, Who("rhs", 0)))}}
      : TRUE

\* gen_assign: "entrance for all assign related stmts"; the index of RANGE
\* for a range clause, -1 (None) otherwise
gen_assign(fs, stk, token, lhs_exprs, rhs) ==
    CHOOSE out \in {
        CASE rhs.k = "Nothing" ->
               [fs |-> gen_op_assign(l.fs, stk, l.lhs[1].l, IF token = "INC" THEN "ADD" ELSE "SUB",
                                     NoExpr, value_type_from_tc(LhsTcType(lhs_exprs[1]))),
                marker |-> -1]
          [] rhs.k = "Values" /\ simple_op(token) # "" ->
               [fs |-> gen_op_assign(l.fs, stk, l.lhs[1].l, simple_op(token), rhs.values[1],
                                     value_type_from_tc(LhsTcType(lhs_exprs[1]))),
                marker |-> -1]
          [] OTHER -> gen_assign_def_var(l.fs, stk, l.lhs, rhs)
      : l \in {gen_assign_lhs_all(fs, stk, token, lhs_exprs, 1, <<>>)}} : TRUE

\* gen_def_var: var names [typ] [= values]; every name takes a new local slot
RECURSIVE gen_def_var_lhs(_, _, _, _, _)
gen_def_var_lhs(fs, stk, names, i, acc) ==
    IF i > Len(names) THEN [fs |-> fs, lhs |-> acc]
    ELSE CHOOSE out \in {
            gen_def_var_lhs(r.fs, stk, names, i + 1, Append(acc, [l |-> Primitive(r.index), t |-> r.t]))
          : r \in {add_local_or_resolve_ident(fs, stk, names[i], TRUE)}} : TRUE
gen_def_var(fs, stk, names, typ, values) ==
    CHOOSE out \in {
        gen_assign_def_var(l.fs, stk, l.lhs, IF values = <<>> THEN Nothing(typ) ELSE Values(values)).fs
      : l \in {gen_def_var_lhs(fs, stk, names, 1, <<>>)}} : TRUE

\* the body of the loop of visit_stmt_return behind visit_expr: the cast to
\* the result's type, the store into the result's local slot, POP 1
visit_stmt_return_store(fs, stk, lhs_t, rhs_t, i) ==
    CHOOSE out \in {
        WithCur(fs, stk,
                emit_pop(emit_store(c.f, Primitive(LocalVar(i)), -1, "", c.typ, Who("store", i)),
                         1, Who("pop", i)))
      : c \in {try_cast_to_iface(current_func(fs, stk), lhs_t, rhs_t, -1, Who("cast", i))}} : TRUE
RECURSIVE visit_stmt_return_results(_, _, _, _, _)
visit_stmt_return_results(fs, stk, types, results, i) ==
    IF i >= Len(results) THEN fs
    ELSE visit_stmt_return_results(
            visit_stmt_return_store(visit_expr(fs, stk, results[i + 1], Who("rhs", i)), stk,
                                    types[i + 1], get_expr_tc_type(results[i + 1]), i),
            stk, types, results, i + 1)
\* visit_stmt_return: every result expression in turn, then RETURN
visit_stmt_return(fs, stk, tstk, results) ==
    EmitCur(visit_stmt_return_results(fs, stk, tstk[Len(tstk)], results, 0), stk,
            Inst("RETURN", "", "", 0, 0, "", Who("ret", 0)))

(***************************************************************************)
(* CodeGen: functions.  gen_func_def is split where it visits the body.    *)
(***************************************************************************)
RECURSIVE add_params(_, _)
add_params(f, params) ==
    IF params = <<>> THEN f ELSE add_params(add_local(f, Head(params)), Tail(params))

\* gen_func_def up to the body: the results take the first local slots, the
\* parameters the next ones; the function goes onto both stacks
gen_func_def_begin(fs, stk, tstk, sig, params) ==
    [fs |-> Append(fs, add_params([new_function("Default") EXCEPT !.nlocals = Len(sig)], params)),
     stk |-> Append(stk, Len(fs) + 1), tstk |-> Append(tstk, sig)]

\* gen_func_def after the body: the closing RETURN, both stacks popped
gen_func_def_end(fs, stk, tstk) ==
    [fs |-> WithCur(fs, stk, emit_return(current_func(fs, stk), Who("end", 0))),
     stk |-> SubSeq(stk, 1, Len(stk) - 1), tstk |-> SubSeq(tstk, 1, Len(tstk) - 1)]

(***************************************************************************)
(* CodeGen: if, for, range, split where they visit their bodies            *)
(***************************************************************************)
\* a jump-like instruction at index i with immediate imm continues at
\* i + 1 + imm (the interpreter's rule, as the offsets of the back jumps show)
JumpTarget(i, imm) == i + 1 + imm
\* a patch that lands one instruction too far
patch_far(f, marker) == set_imm(f, marker - 1, offset(f, marker) + 1)
\* let offset = func.offset(marker); func.instruction_mut(marker - 1).set_imm(offset)
patch(f, marker) == set_imm(f, marker - 1, offset(f, marker))

\* visit_stmt_if to the body: the condition, JUMP_IF_NOT, top_marker
visit_stmt_if_begin(fs, stk, cond) ==
    CHOOSE out \in {
        [fs |-> fs1, top |-> next_code_index(current_func(fs1, stk))]
      : fs1 \in {EmitCur(visit_expr(fs, stk, cond, Who("cond", 0)), stk,
                         Inst("JUMP_IF_NOT", "", "", 0, 0, "", Who("if", 0)))}} : TRUE
\* between the arms: the JUMP over the else arm, then the patch of JUMP_IF_NOT
visit_stmt_if_else(f, top_marker) ==
    [f |-> patch(emit_code(f, "JUMP", Who("if", 1)), top_marker),
     marker |-> next_code_index(f) + 1]
\* the end of an if without else, and the end of the else arm
visit_stmt_if_end(f, marker) == patch(f, marker)

\* visit_stmt_for to the body; out_marker is -1 without a condition
visit_stmt_for_begin(fs, stk, cond) ==
    IF cond = NoExpr
    THEN [fs |-> fs, top |-> next_code_index(current_func(fs, stk)), out |-> -1]
    ELSE CHOOSE out \in {
            [fs |-> fs1, top |-> next_code_index(current_func(fs, stk)),
             out |-> next_code_index(current_func(fs1, stk))]
          : fs1 \in {EmitCur(visit_expr(fs, stk, cond, Who("cond", 0)), stk,
                             Inst("JUMP_IF_NOT", "", "", 0, 0, "", Who("for", 0)))}} : TRUE
\* after the body: the jump to the top, then the patch of the exit jump
visit_stmt_for_end(f, top_marker, out_marker) ==
    IF out_marker # -1
    THEN patch(emit_code_with_imm(f, "JUMP", -offset(f, top_marker) - 1, Who("for", 1)), out_marker)
    ELSE emit_code_with_imm(f, "JUMP", -offset(f, top_marker) - 1, Who("for", 1))

\* visit_stmt_range to the body: key and value are both there, blank when omitted
visit_stmt_range_begin(fs, stk, token, key, val, e) ==
    gen_assign(fs, stk, token, <<key, val>>, Range(e))
\* after the body: RANGE learns where to go when done, then the jump back to it
visit_stmt_range_end(f, marker) ==
    emit_code_with_imm(set_imm(f, marker, offset(f, marker)), "JUMP", -offset(f, marker) - 1,
                       Who("range", 2))

(***************************************************************************)
(* CodeGen: the branch helper (codegen/src/branch.rs is not among the      *)
(* sources).  It keeps a stack of blocks; an unlabeled break emits a JUMP  *)
(* with an open immediate and queues it in the innermost block; leaving a  *)
(* block resolves its queue to the instruction index reached.  Labels,     *)
(* continue and goto are outside the modelled programs.                    *)
(***************************************************************************)
\* the instructions at the indices pcs continue at target
RECURSIVE patch_jumps(_, _, _)
patch_jumps(f, pcs, target) ==
    IF pcs = <<>> THEN f
    ELSE patch_jumps(set_imm(f, Head(pcs), target - Head(pcs) - 1), Tail(pcs), target)
enter_block(br) == Append(br, <<>>)
add_point(f, br, who) ==
    [f |-> emit_code(f, "JUMP", who),
     br |-> [br EXCEPT ![Len(br)] = Append(@, next_code_index(f))]]
leave_block(f, br) ==
    [f |-> patch_jumps(f, br[Len(br)], next_code_index(f)),
     br |-> SubSeq(br, 1, Len(br) - 1)]

(***************************************************************************)
(* CodeGen: switch, type switch and select.  The bodies of their clauses   *)
(* hold the statements  a = b  and  break.  The instructions of a body     *)
(* are named Who("body", id) after they are emitted, id = 8 * (number of   *)
(* the statement) + (index of the clause); those of the body of a default  *)
(* clause of a switch Who("dbody", id).                                    *)
(***************************************************************************)
BodyStmts == {"assign", "break"}
ClauseId(sid, i) == 8 * sid + i
\* the instructions from index from on are named who
Retag(f, from, who) ==
    [f EXCEPT !.code = [k \in 1..Len(f.code) |->
                            IF k > from THEN [f.code[k] EXCEPT !.who = who] ELSE f.code[k]]]
\* visit_stmt for a statement of a body
visit_stmt(fs, stk, br, st, who) ==
    CASE st = "assign" ->
            CHOOSE out \in {
                [fs |-> WithCur(g, stk, Retag(current_func(g, stk),
                                              next_code_index(current_func(fs, stk)), who)),
                 br |-> br]
              : g \in {gen_assign(fs, stk, "ASSIGN", <<LIdent("a")>>, Values(<<Ident("b")>>)).fs}}
              : TRUE
      [] st = "break" ->
            CHOOSE out \in {
                [fs |-> WithCur(fs, stk, r.f), br |-> r.br]
              : r \in {add_point(current_func(fs, stk), br, who)}} : TRUE
\* for s in body.iter() { self.visit_stmt(s) }
RECURSIVE visit_stmts(_, _, _, _, _, _)
visit_stmts(fs, stk, br, body, j, who) ==
    IF j > Len(body) THEN [fs |-> fs, br |-> br]
    ELSE CHOOSE out \in {
            visit_stmts(r.fs, stk, r.br, body, j + 1, who)
          : r \in {visit_stmt(fs, stk, br, body[j], who)}} : TRUE

\* a case clause: default, or case list: ; its body; whether the body ends
\* in fallthrough
CaseClause(default, list, body, ft) ==
    [default |-> default, list |-> list, body |-> body, ft |-> ft]

\* gen_switch_body, the loop over the expressions of one clause: the
\* expression, tags.add_case(i, index of SWITCH), SWITCH
RECURSIVE gen_switch_cases(_, _, _, _, _, _, _)
gen_switch_cases(fs, stk, list, j, tag_type, who, pcs) ==
    IF j > Len(list) THEN [fs |-> fs, pcs |-> pcs]
    ELSE CHOOSE out \in {
            gen_switch_cases(EmitCur(fs1, stk, Inst("SWITCH", tag_type, "", 0, 0, "", who)),
                             stk, list, j + 1, tag_type, who,
                             Append(pcs, next_code_index(current_func(fs1, stk))))
          : fs1 \in {visit_expr(fs, stk, list[j], who)}} : TRUE
\* gen_switch_body, the first loop over the clauses; tags[i] are the indices
\* of the SWITCH instructions of clause i
RECURSIVE gen_switch_tags(_, _, _, _, _, _, _)
gen_switch_tags(fs, stk, clauses, i, tag_type, sid, tags) ==
    IF i > Len(clauses) THEN [fs |-> fs, tags |-> tags]
    ELSE IF clauses[i].default
    THEN gen_switch_tags(fs, stk, clauses, i + 1, tag_type, sid, Append(tags, <<>>))
    ELSE CHOOSE out \in {
            gen_switch_tags(r.fs, stk, clauses, i + 1, tag_type, sid, Append(tags, r.pcs))
          : r \in {gen_switch_cases(fs, stk, clauses[i].list, 1, tag_type,
                                    Who("case", ClauseId(sid, i - 1)), <<>>)}} : TRUE
\* if has_default { tags.add_default(index); JUMP }; the index is -1 without
has_default(clauses) == \E i \in 1..Len(clauses) : clauses[i].default
gen_switch_default(t, stk, clauses, sid) ==
    IF has_default(clauses)
    THEN [fs |-> EmitCur(t.fs, stk, Inst("JUMP", "", "", 0, 0, "", Who("default", ClauseId(sid, 0)))),
          tags |-> t.tags, tdefault |-> next_code_index(current_func(t.fs, stk))]
    ELSE [fs |-> t.fs, tags |-> t.tags, tdefault |-> -1]
\* gen_switch_body, the second loop: the entry of the clause is patched into
\* its SWITCH instructions (into the JUMP of the default clause), then the
\* body, then the JUMP to the end of a clause without fallthrough
RECURSIVE gen_switch_clauses(_, _, _, _, _, _, _, _, _)
gen_switch_clauses(fs, stk, br, clauses, i, sid, tags, tdefault, ends) ==
    IF i > Len(clauses) THEN [fs |-> fs, br |-> br, ends |-> ends]
    ELSE CHOOSE out \in {
            gen_switch_clauses(
                IF clauses[i].ft THEN b.fs
                ELSE EmitCur(b.fs, stk, Inst("JUMP", "", "", 0, 0, "",
                                             Who("caseend", ClauseId(sid, i - 1)))),
                stk, b.br, clauses, i + 1, sid, tags, tdefault,
                IF clauses[i].ft THEN ends
                ELSE Append(ends, next_code_index(current_func(b.fs, stk))))
          : b \in {visit_stmts(
                      WithCur(fs, stk,
                              patch_jumps(current_func(fs, stk),
                                          IF clauses[i].default THEN <<tdefault>> ELSE tags[i],
                                          next_code_index(current_func(fs, stk)))),
                      stk, br, clauses[i].body, 1,
                      Who(IF clauses[i].default THEN "dbody" ELSE "body", ClauseId(sid, i - 1)))}}
          : TRUE
\* gen_switch_body: the comparisons, the clauses, helper.patch_ends(end),
\* "pop the tag"
gen_switch_body(fs, stk, br, clauses, tag_type, sid) ==
    CHOOSE out \in {
        [fs |-> WithCur(c.fs, stk,
                        emit_pop(patch_jumps(current_func(c.fs, stk), c.ends,
                                             next_code_index(current_func(c.fs, stk))),
                                 1, Who("switchpop", ClauseId(sid, 0)))),
         br |-> c.br]
      : c \in {gen_switch_clauses(d.fs, stk, br, clauses, 1, sid, d.tags, d.tdefault, <<>>)
                 : d \in {gen_switch_default(t, stk, clauses, sid)
                            : t \in {gen_switch_tags(fs, stk, clauses, 1, tag_type, sid, <<>>)}}}}
      : TRUE

\* self.branch.leave_block(current_func_mut!(self), None) after r = [fs, br]
leave_block_cur(r, stk) ==
    CHOOSE out \in {
        [fs |-> WithCur(r.fs, stk, l.f), br |-> l.br]
      : l \in {leave_block(current_func(r.fs, stk), r.br)}} : TRUE
\* visit_stmt_switch: the block, the tag (PUSH_TRUE without one), the body
visit_stmt_switch(fs, stk, br, tag, clauses, sid) ==
    CHOOSE out \in {
        leave_block_cur(b, stk)
      : b \in {gen_switch_body(
                  IF tag # NoExpr THEN visit_expr(fs, stk, tag, Who("tag", ClauseId(sid, 0)))
                  ELSE EmitCur(fs, stk, Inst("PUSH_TRUE", "", "", 0, 0, "",
                                             Who("tag", ClauseId(sid, 0)))),
                  stk, enter_block(br), clauses,
                  IF tag # NoExpr THEN get_expr_value_type(tag) ELSE "Bool", sid)}} : TRUE

\* visit_stmt_type_switch: switch x := v.(type) (bind) or switch v.(type):
\* the new local of x, v, TYPE, the body with the tag type Metadata
visit_stmt_type_switch(fs, stk, br, bind, v, clauses, sid) ==
    IF bind
    THEN CHOOSE out \in {
            gen_switch_body(
                EmitCur(visit_expr(WithCur(fs, stk, f1), stk, v, Who("tag", ClauseId(sid, 0))), stk,
                        Inst("TYPE", "FlagA", "", entity_index(f1, "x").i, 0, "",
                             Who("type", ClauseId(sid, 0)))),
                stk, br, clauses, "Metadata", sid)
          : f1 \in {add_local(current_func(fs, stk), "x")}} : TRUE
    ELSE gen_switch_body(
            EmitCur(visit_expr(fs, stk, v, Who("tag", ClauseId(sid, 0))), stk,
                    Inst("TYPE", "", "", 0, 0, "", Who("type", ClauseId(sid, 0)))),
            stk, br, clauses, "Metadata", sid)

\* a communication clause of select: kind is "send" (chan <- val), "recv"
\* (lhs token <-chan, with one left-hand side or with two, the second taking
\* ok), "recvnolhs" (<-chan) or "default"
CommClause(kind, chan, val, lhs, token, body) ==
    [kind |-> kind, chan |-> chan, val |-> val, lhs |-> lhs, token |-> token, body |-> body]
\* CommType as the SELECT words carry it
comm_type(c) ==
    CASE c.kind = "send" -> "Send"
      [] c.kind = "recv" -> IF Len(c.lhs) = 2 THEN "RecvCommaOk" ELSE "Recv"
      [] c.kind = "recvnolhs" -> "RecvNoLhs"
      [] c.kind = "default" -> "Default"

\* the first loop with the channel of a receive visited again behind it
RECURSIVE select_operands_twice(_, _, _, _, _)
select_operands_twice(fs, stk, comms, i, sid) ==
    IF i > Len(comms) THEN fs
    ELSE select_operands_twice(
            CASE comms[i].kind = "send" ->
                    visit_expr(visit_expr(fs, stk, Ident(comms[i].chan),
                                          Who("chan", ClauseId(sid, i - 1))),
                               stk, comms[i].val, Who("val", ClauseId(sid, i - 1)))
              [] comms[i].kind \in {"recv", "recvnolhs"} ->
                    visit_expr(visit_expr(fs, stk, Ident(comms[i].chan),
                                          Who("chan", ClauseId(sid, i - 1))),
                               stk, Ident(comms[i].chan), Who("chan", ClauseId(sid, i - 1)))
              [] comms[i].kind = "default" -> fs,
            stk, comms, i + 1, sid)
\* visit_stmt_select, the first loop: the channel, and the value of a send,
\* of every clause in turn
RECURSIVE select_operands(_, _, _, _, _)
select_operands(fs, stk, comms, i, sid) ==
    IF i > Len(comms) THEN fs
    ELSE select_operands(
            CASE comms[i].kind = "send" ->
                    visit_expr(visit_expr(fs, stk, Ident(comms[i].chan),
                                          Who("chan", ClauseId(sid, i - 1))),
                               stk, comms[i].val, Who("val", ClauseId(sid, i - 1)))
              [] comms[i].kind \in {"recv", "recvnolhs"} ->
                    visit_expr(fs, stk, Ident(comms[i].chan), Who("chan", ClauseId(sid, i - 1)))
              [] comms[i].kind = "default" -> fs,
            stk, comms, i + 1, sid)
\* SelectHelper::emit_select (codegen/src/emit.rs is not among the sources):
\* SELECT with one word per clause, which carries the clause's CommType and,
\* once patched, where its block begins
RECURSIVE emit_select(_, _, _, _)
emit_select(f, comms, i, sid) ==
    IF i > Len(comms) THEN f
    ELSE emit_select(emit_inst(f, Inst("SELECT", comm_type(comms[i]), "", 0, 0, "",
                                       Who("select", ClauseId(sid, i - 1)))),
                     comms, i + 1, sid)
\* visit_stmt_select, the second loop: gen_assign of a receive with
\* left-hand sides, the body, and JUMP but for the last block, whose end is
\* the index of its last instruction
RECURSIVE select_blocks(_, _, _, _, _, _, _)
select_blocks(fs, stk, br, comms, i, sid, blocks) ==
    IF i > Len(comms) THEN [fs |-> fs, br |-> br, blocks |-> blocks]
    ELSE CHOOSE out \in {
            select_blocks(
                IF i < Len(comms)
                THEN EmitCur(b.fs, stk, Inst("JUMP", "", "", 0, 0, "",
                                             Who("armend", ClauseId(sid, i - 1))))
                ELSE b.fs,
                stk, b.br, comms, i + 1, sid,
                Append(blocks,
                       [begin |-> next_code_index(current_func(fs, stk)),
                        end |-> next_code_index(current_func(b.fs, stk))
                                    - (IF i < Len(comms) THEN 0 ELSE 1)]))
          : b \in {visit_stmts(
                      IF comms[i].kind = "recv"
                      THEN gen_assign(fs, stk, comms[i].token, comms[i].lhs,
                                      SelectRecv(Ident(comms[i].chan),
                                                 IF Len(comms[i].lhs) = 2 THEN "CommaOk"
                                                 ELSE "Value")).fs
                      ELSE fs,
                      stk, br, comms[i].body, 1, Who("body", ClauseId(sid, i - 1)))}} : TRUE
\* SelectHelper::patch_select: the word of every clause learns where its
\* block begins, counted from the first block; the JUMP that ends a block
\* continues behind the last block
RECURSIVE patch_select(_, _, _, _)
patch_select(f, sel, blocks, i) ==
    IF i > Len(blocks) THEN f
    ELSE patch_select(
            IF i < Len(blocks)
            THEN set_imm(set_imm(f, sel + i - 1, blocks[i].begin - blocks[1].begin),
                         blocks[i].end, blocks[Len(blocks)].end - blocks[i].end)
            ELSE set_imm(f, sel + i - 1, blocks[i].begin - blocks[1].begin),
            sel, blocks, i + 1)
\* visit_stmt_select behind the blocks b: patch_select, then the block is left
select_finish(b, stk, sel) ==
    CHOOSE out \in {
        [fs |-> WithCur(b.fs, stk, l.f), br |-> l.br, blocks |-> b.blocks, sel |-> sel]
      : l \in {leave_block(patch_select(current_func(b.fs, stk), sel, b.blocks, 1), b.br)}} : TRUE
\* visit_stmt_select behind the operands o: SELECT, the blocks
select_after_operands(o, stk, br, comms, sid) ==
    CHOOSE out \in {
        select_finish(b, stk, next_code_index(current_func(o, stk)))
      : b \in {select_blocks(WithCur(o, stk, emit_select(current_func(o, stk), comms, 1, sid)),
                             stk, br, comms, 1, sid, <<>>)}} : TRUE
\* visit_stmt_select; sel is the index of the first word of SELECT
visit_stmt_select(fs, stk, br, comms, sid) ==
    CHOOSE out \in {
        select_after_operands(o, stk, enter_block(br), comms, sid)
      : o \in {select_operands(fs, stk, comms, 1, sid)}} : TRUE

(***************************************************************************)
(* The value layer as a state machine of its own                           *)
(***************************************************************************)
\* nothing lowered yet
NoLast ==
    [kind |-> "none", fn |-> 0, start |-> 0, end |-> 0, token |-> "", lhs |-> <<>>,
     vals |-> <<>>, dst |-> <<>>, src |-> <<>>, ident |-> "", index |-> 0, cur |-> NoEnt,
     hit |-> 0, blocks |-> <<>>, clauses |-> <<>>]
CGIdle ==
    /\ functions = <<>> /\ func_stack = <<>> /\ func_t_stack = <<>>
    /\ frames = <<>> /\ stmts = 0 /\ last = NoLast /\ branch = <<>>

\* no operation of the heap layer applied yet
NoOp ==
    [op |-> "", arg |-> Panicked, arg2 |-> Panicked, out |-> Panicked, ok |-> TRUE,
     trap |-> FALSE, msg |-> [pre |-> "", digits |-> <<>>, post |-> ""], addr |-> 0, n |-> 0, b |-> FALSE, b2 |-> FALSE, k |-> 0]
ObjIdle == heap = <<>> /\ gcobjs = <<>> /\ roots = <<>> /\ queue = <<>> /\ olast = NoOp
\* no frame is running
NoVm ==
    [phase |-> "off", fn |-> 0, pc |-> 0, stack |-> <<>>, defers |-> <<>>, trace |-> <<>>,
     calls |-> <<>>, path |-> <<>>]
VmIdle == vm = NoVm
\* the checker before it is run
NoTc == [op |-> "none", stmt |-> <<>>, ctx |-> <<>>, results |-> 0, before |-> <<>>,
         after |-> <<>>]
TcIdle == tc = NoTc

InitVal == ValInit /\ CGIdle /\ ObjIdle /\ VmIdle /\ TcIdle
NextVal ==
    \/ ApplyRoundTrip \/ ApplyBinaryOp \/ ApplyEqHash
    \/ ApplyShift \/ ApplyUnaryNegate
SpecVal == InitVal /\ [][NextVal]_vars


(***************************************************************************)
(* The static stack of a straight-line instruction range (the interpreter  *)
(* is not among the sources; the effects are those the emitter's callers   *)
(* rely on: loads and pushes add a cell, stores and casts work in place,   *)
(* POP n removes n cells, CALL replaces the callee by its results).  A     *)
(* cell is named after the step that pushed it.                            *)
(***************************************************************************)
PushOps ==
    {"LOAD_LOCAL", "LOAD_UPVALUE", "LOAD_PKG_FIELD", "PUSH_CONST", "PUSH_IMM", "PUSH_NIL",
     "PUSH_TRUE", "PUSH_FALSE", "LITERAL"}
StoreOps ==
    {"STORE_LOCAL", "STORE_UPVALUE", "STORE_PKG_FIELD", "STORE_INDEX", "STORE_INDEX_IMM",
     "STORE_FIELD_IMM", "STORE_DEREF"}
JumpOps == {"JUMP", "JUMP_IF", "JUMP_IF_NOT", "RANGE"}
Underflow == <<Who("underflow", 0)>>

Exec(ins, st) ==
    IF st = Underflow THEN st
    ELSE CASE ins.op \in PushOps -> Append(st, ins.who)
           [] ins.op = "CALL" ->
                IF st = <<>> THEN Underflow
                ELSE SubSeq(st, 1, Len(st) - 1) \o [k \in 1..ins.imm |-> Who(ins.who.r, ins.who.n + k - 1)]
           [] ins.op = "RANGE" -> st \o <<Who(ins.who.r, ins.who.n), Who(ins.who.r, ins.who.n + 1)>>
           [] ins.op = "POP" ->
                IF Len(st) < ins.imm THEN Underflow ELSE SubSeq(st, 1, Len(st) - ins.imm)
           [] ins.op \in {"JUMP_IF", "JUMP_IF_NOT"} ->
                IF st = <<>> THEN Underflow ELSE SubSeq(st, 1, Len(st) - 1)
           [] OTHER -> st

\* the stack after the instructions from..to-1 of f, empty before them
RECURSIVE Run(_, _, _)
Run(f, from, to) ==
    IF to <= from THEN <<>> ELSE Exec(InstAt(f, to - 1), Run(f, from, to - 1))

\* the cell a negative stack index names
CellAt(st, idx) ==
    IF st # Underflow /\ Len(st) + idx + 1 \in 1..Len(st) THEN st[Len(st) + idx + 1]
    ELSE Who("underflow", 0)

(***************************************************************************)
(* The programs lowered: one function declaration with the parameters      *)
(* a, b int; c MyInt; e I; n NI; m bool; p *int; s []int; t T and a body   *)
(* of statements over them; f is a package-level function.                 *)
(***************************************************************************)
Params == <<"a", "b", "c", "e", "n", "m", "p", "s", "t">>
ResultSigs == {<<>>, <<"int", "I">>}

RECURSIVE SeqsOf(_, _)
SeqsOf(S, n) == IF n = 0 THEN {<<>>} ELSE {Append(q, x) : q \in SeqsOf(S, n - 1), x \in S}

LhsSingles ==
    {LIdent("a"), LIdent("b"), LIdent("e"), LIdent(BlankIdent), LIndex("s", "var"),
     LSelector("t", 1), LStar("p")}
DefSingles == {LIdent("x"), LIdent("a"), LIdent(BlankIdent)}
\* the right-hand expressions for one left-hand side: the other int parameter
\* for a and b, a for the other int destinations and for the blank; nil, an
\* int and a named interface for the interface destinations
SrcFor(l) ==
    CASE l = LIdent("a") -> {Ident("b")}
      [] LhsTcType(l) = "I" -> {NilExpr, Ident("a"), Ident("n")}
      [] OTHER -> {Ident("a")}
RetSrcFor(t) ==
    CASE t = "int" -> {Lit("int"), Ident("a")}
      [] t = "I" -> {NilExpr, Lit("string"), Ident("e")}
\* the right-hand sides for the left-hand sides lhs: one expression each, or
\* one call of a function with as many int results
RECURSIVE ValueSeqsEach(_, _)
ValueSeqsEach(lhs, n) ==
    IF n = 0 THEN {<<>>}
    ELSE {Append(q, x) : q \in ValueSeqsEach(lhs, n - 1), x \in SrcFor(lhs[n])}
ValueSeqs(lhs) ==
    ValueSeqsEach(lhs, Len(lhs))
    \cup (IF Len(lhs) >= 2 /\ \A j \in 1..Len(lhs) : lhs[j].k = "Ident"
          THEN {<<Call([j \in 1..Len(lhs) |-> "int"])>>} ELSE {})
TypesOf(lhs) == [j \in 1..Len(lhs) |-> LhsTcType(lhs[j])]
SrcTypes(vals, n) ==
    IF Len(vals) = n THEN [j \in 1..n |-> get_expr_tc_type(vals[j])] ELSE get_tuple_tc_types(vals[1])

\* the left-hand sides of = and of :=, which declares x once, while x is new
LhsSeqs(token, f) ==
    IF token = "ASSIGN" THEN UNION {SeqsOf(LhsSingles, n) : n \in 1..MaxLhs}
    ELSE IF entity_index(f, "x") # NoEnt THEN {}
    ELSE {l \in UNION {SeqsOf(DefSingles, n) : n \in 1..MaxLhs} :
             Cardinality({j \in 1..Len(l) : l[j] = LIdent("x")}) = 1}
OpLhs == {LIdent("c"), LIndex("s", "var"), LSelector("t", 0), LStar("p")}
\* return with one expression per result, or with one call
ReturnInputs(sig) ==
    {v \in SeqsOf(RetSrcFor("int") \cup RetSrcFor("I"), Len(sig)) :
        \A j \in 1..Len(sig) : v[j] \in RetSrcFor(sig[j])}
    \cup (IF Len(sig) >= 2 THEN {<<Call([j \in 1..Len(sig) |-> "int"])>>, <<Call(sig)>>} ELSE {})
Conds == {Ident("m"), BinaryOf("land", "m", "q"), BinaryOf("lor", "m", "q")}

Frame(kind, top, out) == [kind |-> kind, top |-> top, out |-> out]
TopFrame == frames[Len(frames)]
PopFrame == SubSeq(frames, 1, Len(frames) - 1)
Cur == current_func(functions, func_stack)
InBody == Len(func_stack) = 2 /\ stmts < MaxStmts
StmtRec(kind, fs, start, token, lhs, vals, dst, src) ==
    [NoLast EXCEPT !.kind = kind, !.fn = func_stack[Len(func_stack)], !.start = start,
                   !.end = next_code_index(current_func(fs, func_stack)), !.token = token,
                   !.lhs = lhs, !.vals = vals, !.dst = dst, !.src = src]

(***************************************************************************)
(* The visitor's steps                                                     *)
(***************************************************************************)
\* gen_with_files to the declarations: the package constructor is created
\* and goes onto func_stack
GenWithFiles ==
    /\ functions = <<>> /\ last.kind = "none"
    /\ functions' = <<new_function("PkgCtor")>>
    /\ func_stack' = <<1>>
    /\ last' = [NoLast EXCEPT !.kind = "file"]
    /\ UNCHANGED <<func_t_stack, frames, stmts>> /\ UNCHANGED <<tc, valvars, objvars, vm, branch>>

\* visit_stmt_decl_func: gen_func_def to the body
VisitStmtDeclFunc ==
    /\ Len(func_stack) = 1 /\ Len(functions) = 1
    \* the declarations are visited before the package variables
    /\ next_code_index(Cur) = 0
    /\ \E sig \in ResultSigs :
       \E r \in {gen_func_def_begin(functions, func_stack, func_t_stack, sig, Params)} :
          functions' = r.fs /\ func_stack' = r.stk /\ func_t_stack' = r.tstk
    /\ last' = [NoLast EXCEPT !.kind = "func"]
    /\ UNCHANGED <<frames, stmts>> /\ UNCHANGED <<tc, valvars, objvars, vm, branch>>

\* visit_stmt_assign for = and :=
VisitStmtAssign ==
    /\ InBody
    /\ \E token \in {"ASSIGN", "DEFINE"} :
       \E lhs \in LhsSeqs(token, Cur) :
       \E vals \in ValueSeqs(lhs) :
       \E r \in {gen_assign(functions, func_stack, token, lhs, Values(vals))} :
              /\ functions' = r.fs
              /\ last' = StmtRec("assign", r.fs, next_code_index(Cur), token, lhs, vals,
                                 TypesOf(lhs), SrcTypes(vals, Len(lhs)))
    /\ stmts' = stmts + 1
    /\ UNCHANGED <<func_stack, func_t_stack, frames>> /\ UNCHANGED <<tc, valvars, objvars, vm, branch>>

\* visit_stmt_assign for the compound tokens
VisitStmtOpAssign ==
    /\ InBody
    /\ \E token \in CompoundTokens, l \in OpLhs :
       \E r \in {gen_assign(functions, func_stack, token, <<l>>, Values(<<Lit("int")>>))} :
              /\ functions' = r.fs
              /\ last' = StmtRec("opassign", r.fs, next_code_index(Cur), token, <<l>>,
                                 <<Lit("int")>>, TypesOf(<<l>>), <<"int">>)
    /\ stmts' = stmts + 1
    /\ UNCHANGED <<func_stack, func_t_stack, frames>> /\ UNCHANGED <<tc, valvars, objvars, vm, branch>>

\* visit_stmt_incdec
VisitStmtIncDec ==
    /\ InBody
    /\ \E token \in {"INC", "DEC"}, l \in OpLhs :
       \E r \in {gen_assign(functions, func_stack, token, <<l>>, RightHandSide("Nothing", <<>>, ""))} :
              /\ functions' = r.fs
              /\ last' = StmtRec("incdec", r.fs, next_code_index(Cur), token, <<l>>, <<>>,
                                 TypesOf(<<l>>), <<>>)
    /\ stmts' = stmts + 1
    /\ UNCHANGED <<func_stack, func_t_stack, frames>> /\ UNCHANGED <<tc, valvars, objvars, vm, branch>>

\* visit_stmt_return
VisitStmtReturn ==
    /\ InBody
    /\ \E results \in ReturnInputs(func_t_stack[Len(func_t_stack)]) :
       \E fs \in {visit_stmt_return(functions, func_stack, func_t_stack, results)} :
              /\ functions' = fs
              /\ last' = StmtRec("return", fs, next_code_index(Cur), "RETURN", <<>>, results,
                                 func_t_stack[Len(func_t_stack)],
                                 SrcTypes(results, Len(func_t_stack[Len(func_t_stack)])))
    /\ stmts' = stmts + 1
    /\ UNCHANGED <<func_stack, func_t_stack, frames>> /\ UNCHANGED <<tc, valvars, objvars, vm, branch>>

\* visit_stmt_if to the body
VisitStmtIf ==
    /\ InBody
    /\ \E cond \in Conds :
       \E r \in {visit_stmt_if_begin(functions, func_stack, cond)} :
              /\ functions' = r.fs
              /\ frames' = Append(frames, Frame("if", r.top, -1))
              /\ last' = StmtRec("if", r.fs, next_code_index(Cur), "IF", <<>>, <<cond>>, <<>>, <<>>)
    /\ stmts' = stmts + 1
    /\ UNCHANGED <<func_stack, func_t_stack>> /\ UNCHANGED <<tc, valvars, objvars, vm, branch>>

\* visit_stmt_if between the arms of an if with else
VisitStmtElse ==
    /\ Len(func_stack) = 2 /\ frames # <<>> /\ TopFrame.kind = "if"
    /\ \E r \in {visit_stmt_if_else(Cur, TopFrame.top)} :
           /\ functions' = WithCur(functions, func_stack, r.f)
           /\ frames' = Append(PopFrame, Frame("else", r.marker, -1))
    /\ last' = [NoLast EXCEPT !.kind = "else"]
    /\ UNCHANGED <<func_stack, func_t_stack, stmts>> /\ UNCHANGED <<tc, valvars, objvars, vm, branch>>

\* visit_stmt_if after the last arm
VisitStmtIfEnd ==
    /\ Len(func_stack) = 2 /\ frames # <<>> /\ TopFrame.kind \in {"if", "else"}
    /\ functions' = WithCur(functions, func_stack, visit_stmt_if_end(Cur, TopFrame.top))
    /\ frames' = PopFrame
    /\ last' = [NoLast EXCEPT !.kind = "ifend"]
    /\ UNCHANGED <<func_stack, func_t_stack, stmts>> /\ UNCHANGED <<tc, valvars, objvars, vm, branch>>

\* visit_stmt_for to the body, with or without a condition; the loop opens
\* a block of the branch helper
VisitStmtFor ==
    /\ InBody
    /\ \E cond \in Conds \cup {NoExpr} :
       \E r \in {visit_stmt_for_begin(functions, func_stack, cond)} :
              /\ functions' = r.fs
              /\ frames' = Append(frames, Frame("for", r.top, r.out))
              /\ last' = StmtRec("for", r.fs, next_code_index(Cur), "FOR", <<>>, <<cond>>, <<>>, <<>>)
    /\ branch' = enter_block(branch)
    /\ stmts' = stmts + 1
    /\ UNCHANGED <<func_stack, func_t_stack>> /\ UNCHANGED <<tc, valvars, objvars, vm>>

\* visit_stmt_for after the body; the block is left last
VisitStmtForEnd ==
    /\ Len(func_stack) = 2 /\ frames # <<>> /\ TopFrame.kind = "for"
    /\ \E l \in {leave_block(visit_stmt_for_end(Cur, TopFrame.top, TopFrame.out), branch)} :
          /\ functions' = WithCur(functions, func_stack, l.f)
          /\ branch' = l.br
          /\ last' = [NoLast EXCEPT !.kind = "forend", !.fn = func_stack[Len(func_stack)],
                                    !.start = TopFrame.top, !.end = next_code_index(l.f)]
    /\ frames' = PopFrame
    /\ UNCHANGED <<func_stack, func_t_stack, stmts>> /\ UNCHANGED <<tc, valvars, objvars, vm>>

\* visit_stmt_range to the body: for k, v = range s and for x := range s
VisitStmtRange ==
    /\ InBody
    /\ \E token \in {"ASSIGN", "DEFINE"} :
       \E key \in IF token = "ASSIGN" THEN {LIdent(BlankIdent), LIdent("a")}
                  ELSE IF entity_index(Cur, "x") = NoEnt THEN {LIdent("x")} ELSE {} :
       \E val \in IF token = "ASSIGN" THEN {LIdent(BlankIdent), LIdent("e")} ELSE {LIdent(BlankIdent)} :
       \E r \in {visit_stmt_range_begin(functions, func_stack, token, key, val, Ident("s"))} :
              /\ functions' = r.fs
              /\ frames' = Append(frames, Frame("range", r.marker, -1))
              /\ last' = StmtRec("range", r.fs, next_code_index(Cur), token, <<key, val>>,
                                 <<Ident("s")>>, TypesOf(<<key, val>>), <<"int", "int">>)
    /\ branch' = enter_block(branch)
    /\ stmts' = stmts + 1
    /\ UNCHANGED <<func_stack, func_t_stack>> /\ UNCHANGED <<tc, valvars, objvars, vm>>

\* visit_stmt_range after the body
VisitStmtRangeEnd ==
    /\ Len(func_stack) = 2 /\ frames # <<>> /\ TopFrame.kind = "range"
    /\ \E l \in {leave_block(visit_stmt_range_end(Cur, TopFrame.top), branch)} :
          /\ functions' = WithCur(functions, func_stack, l.f)
          /\ branch' = l.br
    /\ frames' = PopFrame
    /\ last' = [NoLast EXCEPT !.kind = "rangeend"]
    /\ UNCHANGED <<func_stack, func_t_stack, stmts>> /\ UNCHANGED <<tc, valvars, objvars, vm>>

\* gen_func_def after the body of a declared function
GenFuncDefEnd ==
    /\ Len(func_stack) = 2 /\ frames = <<>>
    /\ \E r \in {gen_func_def_end(functions, func_stack, func_t_stack)} :
           functions' = r.fs /\ func_stack' = r.stk /\ func_t_stack' = r.tstk
    /\ last' = [NoLast EXCEPT !.kind = "funcend", !.fn = func_stack[Len(func_stack)]]
    /\ UNCHANGED <<frames, stmts>> /\ UNCHANGED <<tc, valvars, objvars, vm, branch>>

\* gen_with_files after the declarations and the package variables: the
\* constructor returns and leaves func_stack
GenWithFilesEnd ==
    /\ Len(func_stack) = 1
    /\ functions' = WithCur(functions, func_stack, emit_return(Cur, Who("end", 0)))
    /\ func_stack' = <<>>
    /\ last' = [NoLast EXCEPT !.kind = "fileend", !.fn = 1]
    /\ UNCHANGED <<func_t_stack, frames, stmts>> /\ UNCHANGED <<tc, valvars, objvars, vm, branch>>

Init == ValIdle /\ CGIdle /\ ObjIdle /\ VmIdle /\ TcIdle
Next ==
    \/ GenWithFiles \/ VisitStmtDeclFunc
    \/ VisitStmtAssign \/ VisitStmtOpAssign \/ VisitStmtIncDec \/ VisitStmtReturn
    \/ VisitStmtIf \/ VisitStmtElse \/ VisitStmtIfEnd
    \/ VisitStmtFor \/ VisitStmtForEnd
    \/ VisitStmtRange \/ VisitStmtRangeEnd
    \/ GenFuncDefEnd \/ GenWithFilesEnd
Spec == Init /\ [][Next]_vars

(***************************************************************************)
(* Identifier resolution in nested function literals: a package variable   *)
(* g, one declared function with the parameters above, function literals   *)
(* func() { .. } nested in it or initialising a package variable, and the  *)
(* statements _ = v and v = 1 for a variable v in scope.                   *)
(***************************************************************************)
\* the members add_pkg_var_member and visit_stmt_decl_func give the package
PkgMembers == {"g", "f"}
UseIdents == {"a", "g"}
InScope(v) ==
    \/ v \in PkgMembers
    \/ \E j \in 2..Len(func_stack) : entity_index(functions[func_stack[j]], v) # NoEnt
\* the position on func_stack of the nearest function around the current one,
\* the package constructor aside, that knows v; 0 when there is none
NearestEnclosing(v) ==
    IF \E j \in 2..(Len(func_stack) - 1) : entity_index(functions[func_stack[j]], v) # NoEnt
    THEN SetMax({j \in 2..(Len(func_stack) - 1) : entity_index(functions[func_stack[j]], v) # NoEnt})
    ELSE 0

\* visit_expr_func_lit after the body: gen_func_def ends, the function
\* becomes a constant of the parent, LITERAL makes the closure
visit_expr_func_lit_end(fs, stk, tstk) ==
    CHOOSE out \in {
        [fs |-> WithCur(r.fs, r.stk, emit_literal(current_func(r.fs, r.stk), "Function", Who("rhs", 0))),
         stk |-> r.stk, tstk |-> r.tstk]
      : r \in {gen_func_def_end(fs, stk, tstk)}} : TRUE

\* gen_def_var for var g = 1 in the package constructor
GenDefVar ==
    /\ Len(func_stack) = 1 /\ stmts < MaxResStmts
    /\ entity_index(Cur, "g") = NoEnt
    /\ functions' = gen_def_var(functions, func_stack, <<"g">>, "int", <<Lit("int")>>)
    /\ stmts' = stmts + 1
    /\ last' = [NoLast EXCEPT !.kind = "var", !.fn = 1]
    /\ UNCHANGED <<func_stack, func_t_stack, frames>> /\ UNCHANGED <<tc, valvars, objvars, vm, branch>>

\* _ = v (the use is a load) and v = 1 (the use is a store)
VisitExprIdent ==
    /\ Len(func_stack) >= 2 /\ stmts < MaxResStmts
    /\ \E v \in UseIdents, load \in BOOLEAN :
          /\ InScope(v)
          /\ \E r \in {IF load
                       THEN gen_assign(functions, func_stack, "ASSIGN", <<LIdent(BlankIdent)>>,
                                       Values(<<Ident(v)>>))
                       ELSE gen_assign(functions, func_stack, "ASSIGN", <<LIdent(v)>>,
                                       Values(<<Lit("int")>>))} :
                /\ functions' = r.fs
                /\ last' = [NoLast EXCEPT !.kind = "use", !.fn = func_stack[Len(func_stack)],
                                          !.start = next_code_index(Cur),
                                          !.end = next_code_index(current_func(r.fs, func_stack)),
                                          !.ident = v,
                                          !.index = next_code_index(Cur) + (IF load THEN 0 ELSE 1),
                                          !.cur = entity_index(Cur, v),
                                          !.hit = NearestEnclosing(v)]
    /\ stmts' = stmts + 1
    /\ UNCHANGED <<func_stack, func_t_stack, frames>> /\ UNCHANGED <<tc, valvars, objvars, vm, branch>>

\* visit_expr_func_lit to the body, for _ = func() { and var _ = func() {
VisitExprFuncLit ==
    /\ Len(func_stack) \in 1..(MaxFuncs - 1) /\ stmts < MaxResStmts
    /\ \E r \in {gen_func_def_begin(functions, func_stack, func_t_stack, <<>>, <<>>)} :
          functions' = r.fs /\ func_stack' = r.stk /\ func_t_stack' = r.tstk
    /\ frames' = Append(frames, Frame("lit", -1, -1))
    /\ stmts' = stmts + 1
    /\ last' = [NoLast EXCEPT !.kind = "lit"]
    /\ UNCHANGED <<tc, valvars, objvars, vm, branch>>

\* visit_expr_func_lit after the body, then the store to the blank
\* identifier and the POP of the closure
VisitExprFuncLitEnd ==
    /\ frames # <<>> /\ TopFrame.kind = "lit"
    /\ \E r \in {visit_expr_func_lit_end(functions, func_stack, func_t_stack)} :
          /\ functions' = WithCur(r.fs, r.stk,
                                  gen_assign_def_var_stores(current_func(r.fs, r.stk),
                                                            <<[l |-> Primitive(Blank), t |-> "none"]>>,
                                                            <<"func">>, FALSE))
          /\ func_stack' = r.stk /\ func_t_stack' = r.tstk
    /\ frames' = PopFrame
    /\ last' = [NoLast EXCEPT !.kind = "litend"]
    /\ UNCHANGED stmts /\ UNCHANGED <<tc, valvars, objvars, vm, branch>>

NextRes ==
    \/ GenWithFiles \/ VisitStmtDeclFunc \/ GenDefVar
    \/ VisitExprIdent \/ VisitExprFuncLit \/ VisitExprFuncLitEnd
    \/ GenFuncDefEnd \/ GenWithFilesEnd
SpecRes == Init /\ [][NextRes]_vars

(***************************************************************************)
(* Properties of the code generator                                        *)
(***************************************************************************)
LastFn == functions[last.fn]
\* the instruction indices of the statement lowered last
LastRange == last.start..(last.end - 1)
LastStack(p) == Run(LastFn, last.start, p)

\* C1: the instructions emitted for an assignment, a definition, a compound
\* assignment, an inc/dec or a return leave the static stack as deep as it
\* was before the statement: every cell pushed is removed by the statement's
\* own POP instructions
C1_StackBalance ==
    last.kind \in {"assign", "opassign", "incdec", "return"} => LastStack(last.end) = <<>>

\* the same for every statement but a return of one call with several results
C1_StackBalanceOnePerResult ==
    (/\ last.kind \in {"assign", "opassign", "incdec", "return"}
     /\ ~(last.kind = "return" /\ Len(last.vals) # Len(last.dst)))
        => LastStack(last.end) = <<>>

\* the functions whose code generation has finished
Finished == {k \in 1..Len(functions) : \A j \in 1..Len(func_stack) : func_stack[j] # k}

\* C2: in a function whose code generation has finished, every jump-like
\* instruction (JUMP, JUMP_IF, JUMP_IF_NOT, RANGE) continues at an instruction
\* index inside the function's instruction vector
C2_JumpValidity ==
    \A k \in Finished :
        \A i \in 0..(next_code_index(functions[k]) - 1) :
            InstAt(functions[k], i).op \in JumpOps
                => JumpTarget(i, InstAt(functions[k], i).imm) \in 0..(next_code_index(functions[k]) - 1)

\* a finished function with a jump back to the top of a loop, a patched
\* forward jump out of a statement and a patched short-circuit jump
C2_Witness ==
    \E k \in Finished :
        /\ \E i \in 0..(next_code_index(functions[k]) - 1) :
              InstAt(functions[k], i).op = "JUMP" /\ InstAt(functions[k], i).imm < 0
        /\ \E i \in 0..(next_code_index(functions[k]) - 1) :
              /\ InstAt(functions[k], i).op = "JUMP_IF_NOT" /\ InstAt(functions[k], i).imm > 1
              /\ InstAt(functions[k], i).who.r \in {"if", "for"}
        /\ \E i \in 0..(next_code_index(functions[k]) - 1) :
              /\ InstAt(functions[k], i).op \in {"JUMP_IF", "JUMP_IF_NOT"}
              /\ InstAt(functions[k], i).who.r = "cond"

\* the i-th value (from 0) of the statement lowered last is cast: a CAST by
\* the i-th store's step on the cell of the i-th value, before that store
HasCast(i) ==
    \E p \in LastRange :
        /\ InstAt(LastFn, p).op = "CAST" /\ InstAt(LastFn, p).who = Who("cast", i)
        /\ CellAt(LastStack(p), InstAt(LastFn, p).idx).r = "rhs"
        /\ \A q \in LastRange :
              (InstAt(LastFn, q).op \in StoreOps /\ InstAt(LastFn, q).who = Who("store", i)) => p < q
NeedsCast(t) == underlying_value_type_from_tc(t) \notin {"Interface", "Nil"}

\* C3: for every store or return into a slot whose type has an interface
\* underlying type, an interface CAST on the source cell is emitted before
\* the STORE exactly when the source's underlying value type is neither
\* Interface nor Nil
C3_InterfaceCoercion ==
    last.kind \in {"assign", "return", "range"} =>
        \A i \in 1..Len(last.dst) :
            (last.dst[i] # "none" /\ underlying_value_type_from_tc(last.dst[i]) = "Interface")
                => (HasCast(i - 1) <=> NeedsCast(last.src[i]))

\* the same for every statement but a return of one call with several results
C3_InterfaceCoercionOnePerResult ==
    (/\ last.kind \in {"assign", "return", "range"}
     /\ ~(last.kind = "return" /\ Len(last.vals) # Len(last.dst))) =>
        \A i \in 1..Len(last.dst) :
            (last.dst[i] # "none" /\ underlying_value_type_from_tc(last.dst[i]) = "Interface")
                => (HasCast(i - 1) <=> NeedsCast(last.src[i]))

\* the instruction of the use lowered last
UseInst == InstAt(LastFn, last.index)
LocalOps == {"LOAD_LOCAL", "STORE_LOCAL"}
UpValueOps == {"LOAD_UPVALUE", "STORE_UPVALUE"}
PkgOps == {"LOAD_PKG_FIELD", "STORE_PKG_FIELD"}

\* C4: a use of an identifier resolves to a local slot, an upvalue slot or a
\* package member, searched in that order: the current function's entity
\* map, then the enclosing functions without the package constructor and the
\* function itself, then the package; and the slot exists in the function
\* the instruction is emitted into
C4_Resolution ==
    last.kind = "use" =>
        /\ UseInst.op \in LocalOps \cup UpValueOps \cup PkgOps
        /\ IF last.cur # NoEnt
           THEN /\ UseInst.op \in (IF last.cur.k = "LocalVar" THEN LocalOps ELSE UpValueOps)
                /\ UseInst.imm = last.cur.i
           ELSE IF last.hit # 0
           THEN UseInst.op \in UpValueOps
           ELSE UseInst.op \in PkgOps
        /\ UseInst.op \in LocalOps => UseInst.imm \in 0..(LastFn.nlocals - 1)
        /\ UseInst.op \in UpValueOps =>
              /\ UseInst.imm \in 0..(Len(LastFn.up_ptrs) - 1)
              /\ entity_index(functions[LastFn.up_ptrs[UseInst.imm + 1].func], last.ident) # NoEnt
              /\ entity_index(functions[LastFn.up_ptrs[UseInst.imm + 1].func], last.ident).i
                    = LastFn.up_ptrs[UseInst.imm + 1].index
        /\ UseInst.op \in PkgOps => UseInst.t1 = last.ident /\ last.ident \in PkgMembers

\* a use in a function literal that initialises a package variable, of a
\* package variable the constructor holds as a local: a package member
C4_Witness ==
    /\ last.kind = "use" /\ Len(func_stack) = 2 /\ functions[last.fn].flag = "Default"
    /\ last.ident = "g" /\ entity_index(functions[1], "g") # NoEnt
    /\ TopFrame.kind = "lit"
    /\ UseInst.op \in PkgOps

\* an upvalue: a parameter of the declared function used in a literal
C4_WitnessUpValue ==
    /\ last.kind = "use" /\ last.cur = NoEnt /\ last.hit # 0
    /\ UseInst.op = "LOAD_UPVALUE"

\* C5: when resolve_var_ident finds the identifier in an enclosing function
\* more than one level up the func_stack, every function between that one
\* and the current one gets an upvalue descriptor for it, and the current
\* function's upvalue slot is returned
C5_UpvalueChaining ==
    (last.kind = "use" /\ last.cur = NoEnt /\ last.hit # 0 /\ last.hit < Len(func_stack) - 1) =>
        /\ UseInst.op \in UpValueOps
        /\ \A j \in (last.hit + 1)..(Len(func_stack) - 1) :
              entity_index(functions[func_stack[j]], last.ident) # NoEnt

\* the current function gets its upvalue slot
C5_CurrentSlot ==
    (last.kind = "use" /\ last.cur = NoEnt /\ last.hit # 0) =>
        /\ UseInst.op \in UpValueOps
        /\ entity_index(LastFn, last.ident) = UpValue(UseInst.imm)

\* C6: in an assignment or definition with N left-hand sides and N
\* right-hand expressions every right-hand expression is evaluated onto the
\* stack, in source order, before any STORE, and the i-th STORE reads the
\* cell of the i-th value
C6_Simultaneous ==
    (last.kind = "assign" /\ Len(last.vals) = Len(last.lhs)) =>
        /\ \A i \in 1..Len(last.vals) :
              \E p \in LastRange :
                 /\ InstAt(LastFn, p).who = Who("rhs", i - 1)
                 /\ last.vals[i].kind = "ident" =>
                       InstAt(LastFn, p).imm = entity_index(LastFn, last.vals[i].ent).i
        /\ \A p, q \in LastRange :
              (InstAt(LastFn, p).who.r = "rhs" /\ InstAt(LastFn, q).op \in StoreOps) => p < q
        /\ \A p, q \in LastRange :
              (/\ InstAt(LastFn, p).who.r = "rhs" /\ InstAt(LastFn, q).who.r = "rhs"
               /\ InstAt(LastFn, p).who.n < InstAt(LastFn, q).who.n) => p < q
        /\ \A i \in 1..Len(last.lhs) :
              last.lhs[i] # LIdent(BlankIdent) =>
                 \E q \in LastRange :
                    /\ InstAt(LastFn, q).op \in StoreOps
                    /\ InstAt(LastFn, q).who = Who("store", i - 1)
        /\ \A q \in LastRange :
              InstAt(LastFn, q).op \in StoreOps =>
                 CellAt(LastStack(q), InstAt(LastFn, q).idx) = Who("rhs", InstAt(LastFn, q).who.n)

\* a, b = b, a: the store to a reads the cell loaded from b, the store to b
\* the cell loaded from a
C6_Witness ==
    /\ last.kind = "assign" /\ last.token = "ASSIGN"
    /\ last.lhs = <<LIdent("a"), LIdent("b")>> /\ last.vals = <<Ident("b"), Ident("a")>>
    /\ \E p1, p2, q1, q2 \in LastRange :
          /\ p1 < p2 /\ p2 < q1 /\ q1 < q2
          /\ InstAt(LastFn, p1).op = "LOAD_LOCAL"
          /\ InstAt(LastFn, p1).imm = entity_index(LastFn, "b").i
          /\ InstAt(LastFn, p2).op = "LOAD_LOCAL"
          /\ InstAt(LastFn, p2).imm = entity_index(LastFn, "a").i
          /\ InstAt(LastFn, q1).op = "STORE_LOCAL"
          /\ InstAt(LastFn, q1).imm = entity_index(LastFn, "a").i
          /\ CellAt(LastStack(q1), InstAt(LastFn, q1).idx) = InstAt(LastFn, p1).who
          /\ InstAt(LastFn, q2).op = "STORE_LOCAL"
          /\ InstAt(LastFn, q2).imm = entity_index(LastFn, "b").i
          /\ CellAt(LastStack(q2), InstAt(LastFn, q2).idx) = InstAt(LastFn, p2).who

\* prefixes above the values do not occur with these statements: an
\* assignment to an element of a slice next to one to a variable
C6_WitnessPrefix ==
    /\ last.kind = "assign"
    /\ last.lhs = <<LIndex("s", "var"), LIdent("b")>> /\ Len(last.vals) = 2

\* the opcode the statement's token stands for
FusedOpcode(token) ==
    CASE token \in {"ADD_ASSIGN", "INC"} -> "ADD"
      [] token \in {"SUB_ASSIGN", "DEC"} -> "SUB"
      [] token = "MUL_ASSIGN" -> "MUL"
      [] token = "QUO_ASSIGN" -> "QUO"
      [] token = "REM_ASSIGN" -> "REM"
      [] token = "AND_ASSIGN" -> "AND"
      [] token = "OR_ASSIGN" -> "OR"
      [] token = "XOR_ASSIGN" -> "XOR"
      [] token = "SHL_ASSIGN" -> "SHL"
      [] token = "SHR_ASSIGN" -> "SHR"
      [] token = "AND_NOT_ASSIGN" -> "AND_NOT"
\* the instructions that evaluate the prefix of a left-hand side
PrefixLen(l) ==
    CASE l.k = "Ident" -> 0
      [] l.k = "Index" -> IF l.ix = "const" THEN 1 ELSE 2
      [] l.k \in {"Selector", "Star"} -> 1

\* C7: for a compound assignment and for ++ and -- the prefix of the
\* left-hand side is evaluated once and exactly one STORE is emitted, which
\* carries the fused opcode, finds the prefix and the operand on the stack;
\* for ++ and -- the operand is the immediate 1 of the left-hand side's
\* value type
C7_Compound ==
    last.kind \in {"opassign", "incdec"} =>
        /\ Cardinality({p \in LastRange : InstAt(LastFn, p).who.r = "prefix"}) = PrefixLen(last.lhs[1])
        /\ Cardinality({p \in LastRange : InstAt(LastFn, p).op \in StoreOps}) = 1
        /\ \A q \in LastRange :
              InstAt(LastFn, q).op \in StoreOps =>
                 /\ InstAt(LastFn, q).fop = FusedOpcode(last.token)
                 /\ CellAt(LastStack(q), InstAt(LastFn, q).idx) = Who("rhs", 0)
                 /\ PrefixLen(last.lhs[1]) > 0 =>
                       /\ CellAt(LastStack(q), InstAt(LastFn, q).imm) = Who("prefix", 0)
                       /\ Len(LastStack(q)) = PrefixLen(last.lhs[1]) + 1
        /\ last.kind = "incdec" =>
              \E p \in LastRange :
                 /\ InstAt(LastFn, p).who = Who("rhs", 0)
                 /\ InstAt(LastFn, p).op = "PUSH_IMM" /\ InstAt(LastFn, p).imm = 1
                 /\ InstAt(LastFn, p).t0 = value_type_from_tc(LhsTcType(last.lhs[1]))

\* s[b] <<= 1: container and index evaluated once, one STORE_INDEX with SHL
C7_Witness ==
    /\ last.kind = "opassign" /\ last.token = "SHL_ASSIGN" /\ last.lhs = <<LIndex("s", "var")>>
    /\ \E q \in LastRange : InstAt(LastFn, q).op = "STORE_INDEX" /\ InstAt(LastFn, q).fop = "SHL"

\* (*p)--: PUSH_IMM 1, one STORE_DEREF with SUB
C7_WitnessDec ==
    /\ last.kind = "incdec" /\ last.token = "DEC" /\ last.lhs = <<LStar("p")>>
    /\ \E q \in LastRange : InstAt(LastFn, q).op = "STORE_DEREF" /\ InstAt(LastFn, q).fop = "SUB"


(***************************************************************************)
(* The reference variants of GosValue.  An allocation Rc::new(..) is a     *)
(* record of the heap; a value of a reference variant holds the address    *)
(* of its allocation.  strong is the strong count of the Rc, rc the        *)
(* RCount cell next to the object (the variants of RcKinds have one).      *)
(***************************************************************************)
\* allocations and held values of one run
MaxHeap == 2
MaxRoots == 2
\* IRC = i32
IRCMin == -2147483647 - 1
IRCMax == 2147483647

\* enum GosValue: the variants whose Rc holds a pair (object, RCount)
RcKinds == {"Array", "Closure", "Slice", "Map", "Struct"}
\* the variants that hold an Rc
RefKinds == RcKinds \cup {"Str", "Interface", "Channel"}

\* IfaceUnderlying::None, and IfaceUnderlying::Gos(v, _)
NoUnder == [some |-> FALSE, v |-> Panicked]
Gos(v) == [some |-> TRUE, v |-> v]
\* the allocation Rc::new((obj, Cell::new(0))), or Rc::new(obj) without a cell
RcNew(kind, isnil, elems, und) ==
    [kind |-> kind, cell |-> kind \in RcKinds, rc |-> 0, strong |-> 1,
     nil |-> isnil, elems |-> elems, und |-> und]
Ref(kind, addr) == GosValue(kind, <<addr>>)
\* GosValue::Nil(GosMetadata::Untyped)
new_nil == GosValue("Nil", <<>>)
unwrap_named_ref(v) == IF v.tag = "Named" THEN NamedInner(v) ELSE v
IsRef(v) == unwrap_named_ref(v).tag \in RefKinds
Addr(v) == v.data[1]
\* the elements of an array or a slice are Ints; those of a Str are bytes
IntElem(k) == GosValue("Int", FromNat(k, 8))

\* GcoVec::add and add_weak: a weak handle on the allocation joins the list
gc_add(g, addr) == Append(g, addr)

\* the constructors of impl GosValue: the allocation made and whether the
\* collector is told of it
Constructors ==
    {"array_with_size", "array_with_val", "new_slice", "new_slice_nil", "slice_with_obj",
     "slice_with_val", "slice_with_array", "new_map", "new_map_nil", "new_struct",
     "new_closure", "new_runtime_closure", "new_iface", "new_channel", "new_str"}
ConstructorObj(ctor, elems) ==
    CASE ctor \in {"array_with_size", "array_with_val"} -> RcNew("Array", FALSE, elems, NoUnder)
      [] ctor \in {"new_slice", "slice_with_obj", "slice_with_val", "slice_with_array"} ->
            RcNew("Slice", FALSE, elems, NoUnder)
      [] ctor = "new_slice_nil" -> RcNew("Slice", TRUE, <<>>, NoUnder)
      [] ctor = "new_map" -> RcNew("Map", FALSE, <<>>, NoUnder)
      [] ctor = "new_map_nil" -> RcNew("Map", TRUE, <<>>, NoUnder)
      [] ctor = "new_struct" -> RcNew("Struct", FALSE, elems, NoUnder)
      [] ctor \in {"new_closure", "new_runtime_closure"} -> RcNew("Closure", FALSE, <<>>, NoUnder)
      [] ctor = "new_iface" -> RcNew("Interface", FALSE, <<>>, NoUnder)
      [] ctor = "new_channel" -> RcNew("Channel", FALSE, <<>>, NoUnder)
      [] ctor = "new_str" -> RcNew("Str", FALSE, elems, NoUnder)
\* the constructors that end with gcobjs.add(&v)
ConstructorAdds(ctor) ==
    ctor \in {"array_with_size", "array_with_val", "new_slice", "new_slice_nil",
              "slice_with_obj", "slice_with_val", "slice_with_array", "new_map",
              "new_map_nil", "new_struct", "new_runtime_closure"}
construct(h, g, ctor, elems) ==
    [heap |-> Append(h, ConstructorObj(ctor, elems)),
     gcobjs |-> IF ConstructorAdds(ctor) THEN gc_add(g, Len(h) + 1) ELSE g,
     out |-> Ref(ConstructorObj(ctor, elems).kind, Len(h) + 1)]

\* GosValue::new_empty_iface: the interface takes the value it is given
new_empty_iface(h, underlying) ==
    [heap |-> Append(h, RcNew("Interface", FALSE, <<>>, Gos(underlying))),
     out |-> Ref("Interface", Len(h) + 1)]

\* a mutant: cloning counts the new holder in the RCount cell
clone_counting(h, v) ==
    IF IsRef(v)
    THEN [h EXCEPT ![Addr(v)].strong = @ + 1, ![Addr(v)].rc = @ + 1]
    ELSE h
\* impl Clone for GosValue: Rc::clone for the reference variants, a copy of
\* the payload for the others; the heap after v.clone()
clone(h, v) == IF IsRef(v) THEN [h EXCEPT ![Addr(v)].strong = @ + 1] ELSE h

\* a mutant: dropping a holder uncounts it in the RCount cell
drop_counting(h, v) ==
    IF IsRef(v)
    THEN [h EXCEPT ![Addr(v)].strong = @ - 1, ![Addr(v)].rc = @ - 1]
    ELSE h
\* dropping a GosValue: Rc's drop lowers the strong count and, at zero,
\* drops the object, with it the value an interface holds
RECURSIVE drop(_, _)
drop(h, v) ==
    IF ~IsRef(v) THEN h
    ELSE IF h[Addr(v)].strong > 1 THEN [h EXCEPT ![Addr(v)].strong = @ - 1]
    ELSE IF h[Addr(v)].und.some
         THEN drop([h EXCEPT ![Addr(v)].strong = 0], h[Addr(v)].und.v)
         ELSE [h EXCEPT ![Addr(v)].strong = 0]


\* GosValue::copy_semantic: the heap, the collector's list and the value
\* returned
copy_semantic(h, g, v) ==
    IF unwrap_named_ref(v).tag \in {"Slice", "Map", "Struct"}
    THEN [heap |-> Append(h, [h[Addr(v)] EXCEPT !.rc = 0, !.strong = 1]),
          gcobjs |-> gc_add(g, Len(h) + 1),
          out |-> [v EXCEPT !.data = <<Len(h) + 1>>]]
    ELSE [heap |-> clone(h, v), gcobjs |-> g, out |-> v]

\* the allocation whose RCount cell an operation on v reaches: its own for
\* the variants of RcKinds, through Named, and through an interface to the
\* value it holds (InterfaceObj::ref_sub_one and mark_dirty); 0 for none
RECURSIVE CellOf(_, _)
CellOf(h, v) ==
    CASE unwrap_named_ref(v).tag \in RcKinds -> Addr(v)
      [] unwrap_named_ref(v).tag = "Interface" ->
            IF h[Addr(v)].und.some THEN CellOf(h, h[Addr(v)].und.v) ELSE 0
      [] OTHER -> 0

\* GosValue::ref_sub_one: obj.1.set(obj.1.get() - 1)
ref_sub_one(h, v, build) ==
    IF CellOf(h, v) = 0 THEN [heap |-> h, trap |-> FALSE]
    ELSE IF h[CellOf(h, v)].rc = IRCMin
         THEN IF build = "debug"
              THEN [heap |-> h, trap |-> TRUE]
              ELSE [heap |-> [h EXCEPT ![CellOf(h, v)].rc = IRCMax], trap |-> FALSE]
         ELSE [heap |-> [h EXCEPT ![CellOf(h, v)].rc = @ - 1], trap |-> FALSE]

\* a mark that queues the count and sets the cell whatever the count is
rcount_mark_and_queue_always(h, q, a) ==
    [heap |-> [h EXCEPT ![a].rc = 1], queue |-> Append(q, h[a].rc)]

\* rcount_mark_and_queue
rcount_mark_and_queue(h, q, a) ==
    IF h[a].rc <= 0
    THEN [heap |-> [h EXCEPT ![a].rc = 1], queue |-> Append(q, h[a].rc)]
    ELSE [heap |-> h, queue |-> q]
\* GosValue::mark_dirty
mark_dirty(h, q, v) ==
    IF CellOf(h, v) = 0 THEN [heap |-> h, queue |-> q]
    ELSE rcount_mark_and_queue(h, q, CellOf(h, v))

\* GosValue::rc; _ => unreachable!()
rc(h, v) == IF v.tag \in RcKinds THEN [trap |-> FALSE, rc |-> h[Addr(v)].rc]
            ELSE [trap |-> TRUE, rc |-> 0]
\* GosValue::set_rc; _ => unreachable!()
set_rc(h, v, n) ==
    IF v.tag \in RcKinds
    THEN [heap |-> [h EXCEPT ![Addr(v)].rc = n], trap |-> FALSE]
    ELSE [heap |-> h, trap |-> TRUE]

(***************************************************************************)
(* Indexing                                                                *)
(***************************************************************************)
\* the variants as_index has an arm for
IndexTags == IntTags \ {"UintPtr"}
\* `*i as usize`: sign extension for the signed types, zero extension for
\* the unsigned ones, to the 8 bytes of usize
as_usize(d, signed) ==
    d \o [i \in 1..(8 - Len(d)) |-> IF signed /\ TopBit(d) = 1 THEN 255 ELSE 0]
\* a mutant: the cast keeps the low byte only
as_index_u8(v) == as_usize(<<v.data[1]>>, FALSE)
\* GosValue::as_index
as_index(v) == as_usize(v.data, v.tag \in SignedTags)

\* Display for usize: the decimal digits, most significant first, by long
\* division of the bytes by ten
RECURSIVE RemFrom(_, _)
RemFrom(x, i) == IF i > Len(x) THEN 0 ELSE (RemFrom(x, i + 1) * 256 + x[i]) % 10
DivTen(x) == [i \in 1..Len(x) |-> (RemFrom(x, i + 1) * 256 + x[i]) \div 10]
RECURSIVE DecDigits(_)
DecDigits(x) == IF IsZeroB(x) THEN <<>> ELSE DecDigits(DivTen(x)) \o <<RemFrom(x, 1)>>
Display(x) == IF IsZeroB(x) THEN <<0>> ELSE DecDigits(x)

NoMsg == [pre |-> "", digits |-> <<>>, post |-> ""]
\* RuntimeResult<GosValue>: Ok(x), and Err(format!("index {} out of range", index))
Ok(x) == [ok |-> TRUE, trap |-> FALSE, out |-> x, msg |-> NoMsg]
Err(index) ==
    [ok |-> FALSE, trap |-> FALSE, out |-> Panicked,
     msg |-> [pre |-> "index ", digits |-> Display(index), post |-> " out of range"]]
\* unreachable!()
Unreachable == [ok |-> FALSE, trap |-> TRUE, out |-> Panicked, msg |-> NoMsg]

\* index < len for an index of 8 bytes and a length below 256
Below(index, len) == IsZeroB(Tail(index)) /\ index[1] < len
\* SliceObj::get, ArrayObj::get: the element at index, None beyond the end
get(elems, index) ==
    IF Below(index, Len(elems)) THEN Ok(IntElem(elems[index[1] + 1])) ELSE Err(index)
\* s.get_byte(index).map_or_else(|| Err(..), |x| Ok(GosValue::Int((*x).into())))
get_byte_int(elems, index) ==
    IF Below(index, Len(elems)) THEN Ok(GosValue("Int", FromNat(elems[index[1] + 1], 8)))
    ELSE Err(index)

\* MapObj::get of a map without entries: the default value
map_get == Ok(IntElem(0))

\* the arms of load_index and load_index_int on a container that is not Named
index_arms(h, v, index) ==
    CASE v.tag = "Map" -> map_get
      [] v.tag = "Slice" -> get(h[Addr(v)].elems, index)
      [] v.tag = "Str" -> get_byte_int(h[Addr(v)].elems, index)
      [] v.tag = "Array" -> get(h[Addr(v)].elems, index)
      [] OTHER -> Unreachable
\* GosValue::load_index: no arm for Named, nor for an index as_index has none for
load_index(h, v, ind) ==
    IF ind.tag \notin IndexTags /\ v.tag \in {"Slice", "Str", "Array"} THEN Unreachable
    ELSE index_arms(h, v, as_index(ind))
\* GosValue::load_index_int: GosValue::Named(n) => n.0.load_index_int(i)
load_index_int(h, v, i) == index_arms(h, unwrap_named_ref(v), i)


(***************************************************************************)
(* Equality of reference variants and of interfaces                        *)
(***************************************************************************)
\* InterfaceObj::underlying_value and InterfaceObj::is_nil
underlying_value(h, v) == h[Addr(v)].und
iface_is_nil(h, v) == ~h[Addr(v)].und.some

\* GosValue::is_nil
is_nil(v) == v.tag = "Nil"
\* GosValue::equals_nil
equals_nil(h, v) ==
    CASE v.tag = "Nil" -> TRUE
      [] v.tag = "Named" -> is_nil(NamedInner(v))
      [] v.tag \in {"Slice", "Map"} -> h[Addr(v)].nil
      [] v.tag = "Interface" -> iface_is_nil(h, v)
      [] OTHER -> FALSE

\* the arms of eq for two values of one variant
same_variant_eq(h, x, y) ==
    CASE x.tag = "Nil" -> TRUE
      [] x.tag \in {"Str", "Array", "Struct"} -> h[Addr(x)].elems = h[Addr(y)].elems
      [] x.tag \in {"Closure", "Slice", "Map", "Channel"} -> Addr(x) = Addr(y)
      [] OTHER -> PlainEq(x, y)

\* a mutant: the interface arm matches an interface on the left only
RECURSIVE eq_left(_, _, _)
eq_left(h, x, y) ==
    CASE x.tag = "Named" /\ y.tag = "Named" -> eq_left(h, NamedInner(x), NamedInner(y))
      [] x.tag = y.tag /\ x.tag # "Interface" -> same_variant_eq(h, x, y)
      [] x.tag = "Nil" -> equals_nil(h, y)
      [] y.tag = "Nil" -> equals_nil(h, x)
      [] x.tag = "Interface" /\ y.tag # "Interface" ->
            IF underlying_value(h, x).some THEN eq_left(h, underlying_value(h, x).v, y)
            ELSE FALSE
      [] OTHER -> FALSE

\* impl PartialEq for GosValue on two values that are not both interfaces:
\* the arms for one variant, then (Nil, nil) | (nil, Nil), then
\* (Interface(iface), val) | (val, Interface(iface)), then _ => false
RECURSIVE eq(_, _, _)
eq(h, x, y) ==
    CASE x.tag = "Named" /\ y.tag = "Named" -> eq(h, NamedInner(x), NamedInner(y))
      [] x.tag = y.tag /\ x.tag # "Interface" -> same_variant_eq(h, x, y)
      [] x.tag = "Nil" -> equals_nil(h, y)
      [] y.tag = "Nil" -> equals_nil(h, x)
      [] x.tag = "Interface" /\ y.tag # "Interface" ->
            IF underlying_value(h, x).some THEN eq(h, underlying_value(h, x).v, y)
            ELSE FALSE
      [] y.tag = "Interface" /\ x.tag # "Interface" ->
            IF underlying_value(h, y).some THEN eq(h, underlying_value(h, y).v, x)
            ELSE FALSE
      [] OTHER -> FALSE


(***************************************************************************)
(* The heap layer as a state machine: the program builds values, clones    *)
(* and drops them, and applies the operations of impl GosValue to them.    *)
(***************************************************************************)
MaxQueue == 2
\* operations applied in one run
MaxOps == 4
\* the data of a new array, slice, struct or string
ElemSeqs == {<<>>, <<97, 98>>}
\* the counts handed to set_rc
RcInputs == {IRCMin, 2}
\* index operands of load_index and load_index_int
IndexValues ==
    {GosValue("Int", FromNat(k, 8)) : k \in 0..2}
        \cup {GosValue("Int8", <<255>>), GosValue("Uint16", <<0, 1>>)}
UsizeValues == {FromNat(k, 8) : k \in {0, 1, 2}} \cup {AllOnes(8)}
\* values that are no allocation
PlainValues == {new_nil, IntElem(97), Named(new_nil, 1)}

RemoveAt(s, i) == SubSeq(s, 1, i - 1) \o SubSeq(s, i + 1, Len(s))
More == olast.k < MaxOps
Room == Len(heap) < MaxHeap /\ Len(roots) < MaxRoots

\* one of the constructors, the value kept as it is or as a Named
Construct ==
    /\ More
    /\ Room
    /\ \E ctor \in Constructors, elems \in ElemSeqs, named \in BOOLEAN :
          /\ elems = <<>> \/ ctor \in {"array_with_val", "slice_with_val", "new_struct", "new_str"}
          /\ named => ConstructorObj(ctor, elems).kind \in RcKinds \cup {"Str"}
          /\ \E r \in {construct(heap, gcobjs, ctor, elems)} :
                /\ heap' = r.heap
                /\ gcobjs' = r.gcobjs
                /\ roots' = Append(roots, IF named THEN Named(r.out, 1) ELSE r.out)
                /\ olast' = [NoOp EXCEPT !.k = olast.k + 1, !.op = ctor, !.out = r.out, !.addr = Len(heap) + 1]
    /\ UNCHANGED <<queue, vm>> /\ UNCHANGED <<tc, valvars, cgvars>>

\* new_empty_iface(mdata, underlying) on a held value, or on a plain one
NewEmptyIface ==
    /\ More
    /\ Len(heap) < MaxHeap
    /\ \/ \E i \in 1..Len(roots) :
             \E r \in {new_empty_iface(heap, roots[i])} :
                /\ heap' = r.heap
                /\ roots' = [roots EXCEPT ![i] = r.out]
                /\ olast' = [NoOp EXCEPT !.k = olast.k + 1, !.op = "new_empty_iface", !.arg = roots[i],
                                !.out = r.out, !.addr = Len(heap) + 1]
       \/ /\ Len(roots) < MaxRoots
          /\ \E u \in PlainValues :
             \E r \in {new_empty_iface(heap, u)} :
                /\ heap' = r.heap
                /\ roots' = Append(roots, r.out)
                /\ olast' = [NoOp EXCEPT !.k = olast.k + 1, !.op = "new_empty_iface", !.arg = u,
                                !.out = r.out, !.addr = Len(heap) + 1]
    /\ UNCHANGED <<gcobjs, queue, vm>> /\ UNCHANGED <<tc, valvars, cgvars>>

\* the cell an operation on v reaches, 0 when there is none
RcBefore(v) == IF CellOf(heap, v) = 0 THEN 0 ELSE heap[CellOf(heap, v)].rc

\* let c = v.clone()
Clone ==
    /\ More
    /\ Len(roots) < MaxRoots
    /\ \E i \in 1..Len(roots) :
          /\ heap' = clone(heap, roots[i])
          /\ roots' = Append(roots, roots[i])
          /\ olast' = [NoOp EXCEPT !.k = olast.k + 1, !.op = "clone", !.arg = roots[i], !.out = roots[i],
                          !.addr = CellOf(heap, roots[i]), !.n = RcBefore(roots[i])]
    /\ UNCHANGED <<gcobjs, queue, vm>> /\ UNCHANGED <<tc, valvars, cgvars>>

\* drop(v); b tells that v is the clone the step before made
Drop ==
    /\ More
    /\ \E i \in 1..Len(roots) :
          /\ heap' = drop(heap, roots[i])
          /\ roots' = RemoveAt(roots, i)
          /\ olast' = [NoOp EXCEPT !.k = olast.k + 1, !.op = "drop", !.arg = roots[i],
                          !.b = (olast.op = "clone" /\ i = Len(roots)),
                          !.addr = CellOf(heap, roots[i]),
                          !.n = IF olast.op = "clone" /\ i = Len(roots) THEN olast.n ELSE 0]
    /\ UNCHANGED <<gcobjs, queue, vm>> /\ UNCHANGED <<tc, valvars, cgvars>>

\* v.copy_semantic(gcos) on a held value or a plain one
CopySemantic ==
    /\ More
    /\ Room
    /\ \E v \in {roots[i] : i \in 1..Len(roots)} \cup PlainValues :
       \E r \in {copy_semantic(heap, gcobjs, v)} :
          /\ heap' = r.heap
          /\ gcobjs' = r.gcobjs
          /\ roots' = Append(roots, r.out)
          /\ olast' = [NoOp EXCEPT !.k = olast.k + 1, !.op = "copy_semantic", !.arg = v, !.out = r.out,
                          !.addr = IF Len(r.heap) > Len(heap) THEN Len(r.heap) ELSE 0]
    /\ UNCHANGED <<queue, vm>> /\ UNCHANGED <<tc, valvars, cgvars>>

RefSubOne ==
    /\ More
    /\ \E i \in 1..Len(roots), build \in Builds :
       \E r \in {ref_sub_one(heap, roots[i], build)} :
          /\ heap' = r.heap
          /\ olast' = [NoOp EXCEPT !.k = olast.k + 1, !.op = "ref_sub_one", !.arg = roots[i], !.trap = r.trap,
                          !.addr = CellOf(heap, roots[i]), !.n = RcBefore(roots[i])]
    /\ UNCHANGED <<gcobjs, roots, queue, vm>> /\ UNCHANGED <<tc, valvars, cgvars>>

MarkDirty ==
    /\ More
    /\ Len(queue) < MaxQueue
    /\ \E i \in 1..Len(roots) :
       \E r \in {mark_dirty(heap, queue, roots[i])} :
          /\ heap' = r.heap
          /\ queue' = r.queue
          /\ olast' = [NoOp EXCEPT !.k = olast.k + 1, !.op = "mark_dirty", !.arg = roots[i],
                          !.addr = CellOf(heap, roots[i]), !.n = RcBefore(roots[i])]
    /\ UNCHANGED <<gcobjs, roots, vm>> /\ UNCHANGED <<tc, valvars, cgvars>>

SetRc ==
    /\ More
    /\ \E i \in 1..Len(roots), n \in RcInputs :
       \E r \in {set_rc(heap, roots[i], n)} :
          /\ heap' = r.heap
          /\ olast' = [NoOp EXCEPT !.k = olast.k + 1, !.op = "set_rc", !.arg = roots[i], !.trap = r.trap,
                          !.addr = CellOf(heap, roots[i]), !.n = RcBefore(roots[i])]
    /\ UNCHANGED <<gcobjs, roots, queue, vm>> /\ UNCHANGED <<tc, valvars, cgvars>>

ReadRc ==
    /\ More
    /\ \E i \in 1..Len(roots) :
       \E r \in {rc(heap, roots[i])} :
          olast' = [NoOp EXCEPT !.k = olast.k + 1, !.op = "rc", !.arg = roots[i], !.trap = r.trap, !.n = r.rc]
    /\ UNCHANGED <<heap, gcobjs, roots, queue, vm>> /\ UNCHANGED <<tc, valvars, cgvars>>

LoadIndex ==
    /\ More
    /\ \E i \in 1..Len(roots), ind \in IndexValues :
          /\ roots[i].tag \in {"Slice", "Array", "Str", "Map"}
          /\ \E r \in {load_index(heap, roots[i], ind)} :
                olast' = [NoOp EXCEPT !.k = olast.k + 1, !.op = "load_index", !.arg = roots[i], !.arg2 = ind,
                             !.ok = r.ok, !.trap = r.trap, !.out = r.out, !.msg = r.msg]
    /\ UNCHANGED <<heap, gcobjs, roots, queue, vm>> /\ UNCHANGED <<tc, valvars, cgvars>>

LoadIndexInt ==
    /\ More
    /\ \E i \in 1..Len(roots), idx \in UsizeValues :
          /\ unwrap_named_ref(roots[i]).tag \in {"Slice", "Array", "Str", "Map"}
          /\ \E r \in {load_index_int(heap, roots[i], idx)} :
                olast' = [NoOp EXCEPT !.k = olast.k + 1, !.op = "load_index_int", !.arg = roots[i],
                             !.arg2 = GosValue("Uint", idx),
                             !.ok = r.ok, !.trap = r.trap, !.out = r.out, !.msg = r.msg]
    /\ UNCHANGED <<heap, gcobjs, roots, queue, vm>> /\ UNCHANGED <<tc, valvars, cgvars>>

\* a == b and b == a for two values that are not both interfaces
Eq ==
    /\ More
    /\ \E x \in {roots[i] : i \in 1..Len(roots)} \cup PlainValues,
          y \in {roots[i] : i \in 1..Len(roots)} :
          /\ y.tag = "Interface" /\ x.tag # "Interface"
          /\ olast' = [NoOp EXCEPT !.k = olast.k + 1, !.op = "eq", !.arg = x, !.arg2 = y,
                          !.b = eq(heap, x, y), !.b2 = eq(heap, y, x)]
    /\ UNCHANGED <<heap, gcobjs, roots, queue, vm>> /\ UNCHANGED <<tc, valvars, cgvars>>

NextObj ==
    \/ Construct \/ NewEmptyIface \/ Clone \/ Drop \/ CopySemantic
    \/ RefSubOne \/ MarkDirty \/ SetRc \/ ReadRc
    \/ LoadIndex \/ LoadIndexInt \/ Eq
SpecObj == Init /\ [][NextObj]_vars


(***************************************************************************)
(* Properties of the heap layer                                            *)
(***************************************************************************)
\* the allocation copy_semantic made is one the heap did not hold before,
\* with the contents of the argument's and a cell of its own at 0
FreshWrapper(in, out) ==
    /\ olast.addr = Addr(out) /\ Addr(out) # Addr(in)
    /\ heap[Addr(out)].cell /\ heap[Addr(out)].rc = 0
    /\ heap[Addr(out)].elems = heap[Addr(in)].elems
CopyDone == olast.op = "copy_semantic"

\* C11: copy_semantic always succeeds; of the composite variants only Struct
\* and Array receive a fresh wrapper with a fresh refcount cell; Named
\* recurses into its inner value and keeps its metadata; every other variant
\* is returned as a shared reference to the same object.
C11_CopySemantic ==
    CopyDone =>
        /\ ~olast.trap
        /\ olast.out.tag = olast.arg.tag /\ olast.out.meta = olast.arg.meta
        /\ olast.out.ntag = olast.arg.ntag
        /\ IsRef(olast.arg) =>
              IF unwrap_named_ref(olast.arg).tag \in {"Struct", "Array"}
              THEN FreshWrapper(olast.arg, olast.out)
              ELSE olast.out = olast.arg /\ olast.addr = 0
        /\ ~IsRef(olast.arg) => olast.out = olast.arg


\* the index operand as the usize the operation works on: 2^64 - |i| for a
\* negative i, i itself otherwise
ZeroExt(d) == d \o Zeros(8 - Len(d))
UsizeOf(v) ==
    IF v.tag \in SignedTags /\ TopBit(v.data) = 1
    THEN wrapping_neg(ZeroExt(wrapping_neg(v.data)))
    ELSE ZeroExt(v.data)
\* the number a string of decimal digits denotes, on 8 bytes
RECURSIVE FromDigits(_, _)
FromDigits(ds, acc) ==
    IF ds = <<>> THEN acc ELSE FromDigits(Tail(ds), MulByte(acc, 10, Head(ds)))
\* idx < len for a container of fewer than 65536 elements
IndexBelow(idx, len) == IsZeroB(SubSeq(idx, 3, 8)) /\ ToNat(SubSeq(idx, 1, 2)) < len
OutOfRangeMsg(msg, idx) ==
    /\ msg.pre = "index " /\ msg.post = " out of range"
    /\ msg.digits # <<>> /\ \A i \in 1..Len(msg.digits) : msg.digits[i] \in 0..9
    /\ Len(msg.digits) > 1 => msg.digits[1] # 0
    /\ FromDigits(msg.digits, Zeros(8)) = idx
IndexDone ==
    /\ olast.op \in {"load_index", "load_index_int"}
    /\ olast.arg.tag \in {"Slice", "Array", "Str"}

C13_StringIndexUint8 ==
    (IndexDone /\ olast.arg.tag = "Str" /\ olast.ok) =>
        /\ olast.out.tag = "Uint8"
        /\ olast.out.data = <<heap[Addr(olast.arg)].elems[ToNat(Low2(UsizeOf(olast.arg2))) + 1]>>
\* what the code returns: the byte as an Int (isize)
C13_StringIndexInt ==
    (IndexDone /\ olast.arg.tag = "Str" /\ olast.ok) =>
        /\ olast.out.tag = "Int"
        /\ olast.out.data
              = ZeroExt(<<heap[Addr(olast.arg)].elems[ToNat(Low2(UsizeOf(olast.arg2))) + 1]>>)


\* a == b for two values neither of which is an interface, by the arms of
\* one variant and the arm of Nil
RECURSIVE PlainCmp(_, _, _)
PlainCmp(h, a, b) ==
    CASE a.tag = "Named" /\ b.tag = "Named" -> PlainCmp(h, NamedInner(a), NamedInner(b))
      [] a.tag = b.tag -> same_variant_eq(h, a, b)
      [] a.tag = "Nil" -> equals_nil(h, b)
      [] b.tag = "Nil" -> equals_nil(h, a)
      [] OTHER -> FALSE
\* the comparison of an interface y with a value x that is none
RECURSIVE IfaceCmp(_, _, _)
IfaceCmp(h, y, x) ==
    IF x.tag = "Nil" THEN iface_is_nil(h, y)
    ELSE IF ~underlying_value(h, y).some THEN FALSE
    ELSE IF underlying_value(h, y).v.tag = "Interface"
         THEN IfaceCmp(h, underlying_value(h, y).v, x)
         ELSE PlainCmp(h, underlying_value(h, y).v, x)
EqDone == olast.op = "eq"

\* C14: comparing any value v with an Interface that holds nil yields
\* v.equals_nil(), and comparing v with a non-nil Interface yields the
\* comparison of v with the interface's underlying value; both hold in
\* either argument order.
C14_IfaceNilRule ==
    EqDone =>
        IF iface_is_nil(heap, olast.arg2)
        THEN olast.b = equals_nil(heap, olast.arg) /\ olast.b2 = equals_nil(heap, olast.arg)
        ELSE /\ olast.b = eq(heap, olast.arg, underlying_value(heap, olast.arg2).v)
             /\ olast.b2 = eq(heap, olast.arg, underlying_value(heap, olast.arg2).v)

\* C14, as the code has it: comparing Nil with an Interface yields the
\* interface's is_nil(); comparing any other value v that is no interface
\* with an Interface that holds no value yields false, and with an Interface
\* that holds u yields u == v; in either argument order.
C14_IfaceRule ==
    EqDone =>
        /\ olast.b = IfaceCmp(heap, olast.arg2, olast.arg)
        /\ olast.b2 = IfaceCmp(heap, olast.arg2, olast.arg)
\* a slice has been compared with an interface that holds that slice, and
\* found equal in both orders
C14_Witness ==
    /\ EqDone /\ olast.arg.tag = "Slice"
    /\ underlying_value(heap, olast.arg2).some
    /\ underlying_value(heap, olast.arg2).v = olast.arg
    /\ olast.b /\ olast.b2
\* a nil slice has been compared with an interface that holds nothing, and
\* found different
C14_WitnessNil ==
    /\ EqDone /\ olast.arg.tag = "Slice" /\ equals_nil(heap, olast.arg)
    /\ iface_is_nil(heap, olast.arg2)
    /\ ~olast.b /\ ~olast.b2


(***************************************************************************)
(* Properties of shifts and of unary negate                                *)
(***************************************************************************)
\* bit i of a field, bit 0 the least significant
Bit(x, i) == (x[i \div 8 + 1] \div Pow2(i % 8)) % 2
\* the u32 amount is not below the width w = 8 * n
AtLeastWidth(b, n) == b[2] # 0 \/ b[3] # 0 \/ b[4] # 0 \/ b[1] >= 8 * n
\* bit i of x shifted by k: x << k drops the top k bits and fills with 0,
\* x >> k drops the low k bits and fills with the sign (signed) or 0
ShiftedBit(x, i, k, op, signed) ==
    IF op = "SHL" THEN (IF i >= k THEN Bit(x, i - k) ELSE 0)
    ELSE IF i + k < 8 * Len(x) THEN Bit(x, i + k)
    ELSE IF signed THEN Bit(x, 8 * Len(x) - 1) ELSE 0
ShiftDone == vphase = "done" /\ vres.op \in {"SHL", "SHR"}

\* C15: for every integer value type of width w, SHL and SHR through
\* binary_op with a shift amount b >= w yield zero, and with b < w yield the
\* ordinary shift of the left operand by b.
C15_Shifts ==
    ShiftDone =>
        /\ vres.cell.ok /\ vres.out.tag = va.tag
        /\ IF AtLeastWidth(vres.amount, NBytes(va.tag))
           THEN vres.out.data = Zeros(NBytes(va.tag))
           ELSE \A i \in 0..(8 * NBytes(va.tag) - 1) :
                   Bit(vres.out.data, i)
                       = ShiftedBit(va.data, i, vres.amount[1], vres.op, va.tag \in SignedTags)
\* -1 of type Int64 has been shifted left by 64 and the result is zero
C15_Witness ==
    /\ ShiftDone /\ vres.op = "SHL" /\ va = GosValue("Int64", AllOnes(8))
    /\ vres.amount = FromNat(64, 4) /\ vres.out = GosValue("Int64", Zeros(8))
\* -1 of type Int16 has been shifted right by 15 and the result is -1
C15_WitnessInWidth ==
    /\ ShiftDone /\ vres.op = "SHR" /\ va = GosValue("Int16", AllOnes(2))
    /\ vres.amount = FromNat(15, 4) /\ vres.out = GosValue("Int16", AllOnes(2))

NegDone == vphase = "done" /\ vres.op = "NEG"
\* C16: for every unsigned integer value type of width w and every value x
\* of that type (including 0), unary_negate stores (2^w - x) mod 2^w,
\* computed as (!x)+1, and never traps.
C16_NegateUnsigned ==
    (NegDone /\ va.tag \in UnsignedTags) =>
        /\ vres.cell.ok
        /\ vres.out.tag = va.tag
        /\ wrapping_add(va.data, vres.out.data) = Zeros(NBytes(va.tag))
\* what holds of the code: the same for the types unary_negate has an arm
\* for, and for x # 0 or in a build without overflow checks
C16_NegateUnsignedNoOverflow ==
    (NegDone /\ va.tag \in UnsignedTags \ {"UintPtr"}
        /\ (~IsZeroB(va.data) \/ vres.build = "release")) =>
        /\ vres.cell.ok
        /\ vres.out.tag = va.tag
        /\ wrapping_add(va.data, vres.out.data) = Zeros(NBytes(va.tag))


(***************************************************************************)
(* Properties of the refcount cell and of the collector's list             *)
(***************************************************************************)
\* the cell of allocation a differs between the two states of a step
CellChanged(a) == heap'[a].rc # heap[a].rc
\* ref_sub_one lowered the cell of a by one, around to IRCMax from IRCMin
LoweredByOne(a) ==
    /\ olast'.op = "ref_sub_one" /\ olast'.addr = a
    /\ heap'[a].rc = IF heap[a].rc = IRCMin THEN IRCMax ELSE heap[a].rc - 1
\* mark_dirty found the cell of a at 0 or below and set it to 1
MarkedDirty(a) ==
    /\ olast'.op = "mark_dirty" /\ olast'.addr = a
    /\ heap[a].rc <= 0 /\ heap'[a].rc = 1
\* the variants that carry a cell are those of RcKinds, and a new cell is 0
CellsOfRcKinds ==
    /\ \A a \in 1..Len(heap') : heap'[a].cell <=> heap'[a].kind \in RcKinds
    /\ \A a \in (Len(heap) + 1)..Len(heap') : heap'[a].rc = 0

\* C17: every composite reference variant carries a refcount cell, and after
\* creation that cell is changed only by ref_sub_one (which lowers it by
\* exactly one) and by mark_dirty; no other operation of the value API
\* changes it.
C17_OnlySubOneAndDirty ==
    [][/\ \A a \in 1..Len(heap') : heap'[a].kind \in RefKinds => heap'[a].cell
       /\ \A a \in 1..Len(heap) :
             CellChanged(a) =>
                \/ olast'.op = "ref_sub_one" /\ heap[a].rc # IRCMin
                   /\ heap'[a].rc = heap[a].rc - 1
                \/ olast'.op = "mark_dirty"]_vars

\* C17, as the code has it: Array, Closure, Slice, Map and Struct carry a
\* refcount cell, which starts at 0; after creation it is changed only by
\* ref_sub_one (which lowers it by one, wrapping at the least i32 where it
\* does not panic), by mark_dirty (which sets a cell at 0 or below to 1) and
\* by set_rc; no other operation of the value API changes it.
C17_CellFrame ==
    [][/\ CellsOfRcKinds
       /\ \A a \in 1..Len(heap) :
             CellChanged(a) =>
                \/ LoweredByOne(a)
                \/ MarkedDirty(a)
                \/ olast'.op = "set_rc" /\ olast'.addr = a]_vars
\* set_rc has changed the cell of a value
C17_Witness ==
    /\ olast.op = "set_rc" /\ ~olast.trap
    /\ olast.addr # 0 /\ heap[olast.addr].rc # olast.n

\* every allocation that carries a cell has a weak handle in the list
Registered(a) == \E j \in 1..Len(gcobjs) : gcobjs[j] = a
\* C18: every creation of a composite value (array, slice, map, struct,
\* closure, and the fresh wrappers made by copy_semantic) notifies the
\* collector: the constructor adds a weak handle for the new object to the
\* GC registrar before returning it.
C18_CreationNotifies ==
    \A a \in 1..Len(heap) : heap[a].cell => Registered(a)
\* what holds of the code: the same, the closures of new_closure aside
C18_CreationNotifiesButClosure ==
    \A a \in 1..Len(heap) : (heap[a].cell /\ heap[a].kind # "Closure") => Registered(a)

\* C19: for any composite value v, cloning v and immediately dropping the
\* clone leaves v's refcount cell at the value it had before the clone.
C19_RefcountNeutral ==
    /\ (olast.op = "clone" /\ olast.addr # 0) => heap[olast.addr].rc = olast.n
    /\ (olast.op = "drop" /\ olast.b /\ olast.addr # 0) =>
          /\ heap[olast.addr].strong >= 1
          /\ heap[olast.addr].rc = olast.n
\* a value whose cell set_rc had put at 2 has been cloned and the clone
\* dropped at once
C19_Witness ==
    /\ olast.op = "drop" /\ olast.b /\ olast.addr # 0
    /\ olast.arg.tag \in RcKinds
    /\ olast.n = 2 /\ heap[olast.addr].rc = 2


(***************************************************************************)
(* Defer statements: one declared function whose body is a sequence of     *)
(* defer statements, lowered by visit_stmt_defer, and then a frame that    *)
(* runs the emitted code.  vm.calls keeps, in source order, what the defer *)
(* statements of the body defer; vm.trace what the frame has executed.     *)
(***************************************************************************)
MaxDefers == 3
MaxStack == 5
\* the function values deferred calls are made on, and the channel of close
DeferCallees == {"f", "g"}
DeferCalls == {CallOf(c) : c \in DeferCallees} \cup {Builtin("CLOSE", "c")}
\* a call that is executed or deferred: CALL on a function value, or the
\* opcode of a built-in function on its argument
Invocation(op, on) == [op |-> op, on |-> on]
RECURSIVE Reverse(_)
Reverse(s) == IF s = <<>> THEN <<>> ELSE Reverse(Tail(s)) \o <<Head(s)>>

\* visit_stmt_defer: the flag of the current function, then gen_call with
\* CallStyle::Defer
visit_stmt_defer(fs, stk, call, who) ==
    gen_call(WithCur(fs, stk, [current_func(fs, stk) EXCEPT !.flag = "HasDefer"]),
             stk, call, "Defer", who)

VisitStmtDefer ==
    /\ Len(func_stack) = 2 /\ frames = <<>>
    /\ Len(vm.calls) < MaxDefers
    /\ \E call \in DeferCalls :
          /\ functions' = visit_stmt_defer(functions, func_stack, call, Who("defer", stmts))
          /\ vm' = [vm EXCEPT !.calls = Append(@,
                        Invocation(IF call.kind = "builtin" THEN call.typ ELSE "CALL",
                                   resolve_var_ident(functions, func_stack, call.ent).index))]
          /\ last' = [NoLast EXCEPT !.kind = "defer", !.fn = func_stack[Len(func_stack)],
                         !.start = next_code_index(Cur), !.token = call.kind,
                         !.end = next_code_index(
                                     current_func(visit_stmt_defer(functions, func_stack, call,
                                                                   Who("defer", stmts)),
                                                  func_stack))]
    /\ stmts' = stmts + 1
    /\ UNCHANGED <<func_stack, func_t_stack, frames>> /\ UNCHANGED <<tc, valvars, objvars, branch>>

\* the frame of a call of the declared function, once the package is generated
EnterFrame ==
    /\ vm.phase = "off" /\ last.kind = "fileend" /\ Len(functions) >= 2
    /\ vm' = [vm EXCEPT !.phase = "run", !.fn = 2, !.pc = 1]
    /\ UNCHANGED <<tc, valvars, objvars, cgvars>>

Fetch == functions[vm.fn].code[vm.pc]
\* an entry of vm.path: the index of an instruction executed and the depth
\* of the stack before it
Visit(pc, depth) == [pc |-> pc, depth |-> depth]
\* the frame is at an instruction of ops; its stack holds MaxStack cells at most
Running(ops) ==
    /\ vm.phase = "run" /\ vm.pc <= Len(functions[vm.fn].code) /\ Fetch.op \in ops
    /\ Len(vm.stack) <= MaxStack
\* LOAD_LOCAL and LOAD_PKG_FIELD push the variable's value, here its index
ExecLoad ==
    /\ Running({"LOAD_LOCAL", "LOAD_PKG_FIELD"})
    /\ vm' = [vm EXCEPT !.pc = @ + 1,
                        !.stack = Append(@, IF Fetch.op = "LOAD_LOCAL" THEN LocalVar(Fetch.imm)
                                            ELSE PackageMember(Fetch.t1)),
                        !.path = Append(@, Visit(vm.pc - 1, Len(vm.stack)))]
    /\ UNCHANGED <<tc, valvars, objvars, cgvars>>
ExecPreCall ==
    /\ Running({"PRE_CALL"})
    /\ vm' = [vm EXCEPT !.pc = @ + 1]
    /\ UNCHANGED <<tc, valvars, objvars, cgvars>>
\* CALL: with style Defer the call goes onto the frame's defer stack, else
\* it is executed
ExecCall ==
    /\ Running({"CALL"})
    /\ vm' = [vm EXCEPT !.pc = @ + 1,
                        !.stack = SubSeq(@, 1, Len(@) - 1),
                        !.defers = IF Fetch.t0 = "Defer"
                                   THEN Append(@, Invocation("CALL", vm.stack[Len(vm.stack)]))
                                   ELSE @,
                        !.trace = IF Fetch.t0 = "Defer" THEN @
                                  ELSE Append(@, Invocation("CALL", vm.stack[Len(vm.stack)]))]
    /\ UNCHANGED <<tc, valvars, objvars, cgvars>>
\* CLOSE closes the channel on top of the stack
ExecClose ==
    /\ Running({"CLOSE"})
    /\ vm' = [vm EXCEPT !.pc = @ + 1,
                        !.stack = SubSeq(@, 1, Len(@) - 1),
                        !.trace = Append(@, Invocation("CLOSE", vm.stack[Len(vm.stack)]))]
    /\ UNCHANGED <<tc, valvars, objvars, cgvars>>
\* RETURN unwinds the defer stack of a frame whose function is HasDefer, the
\* call deferred last first
ExecReturn ==
    /\ Running({"RETURN"})
    /\ vm' = [vm EXCEPT !.phase = "returned",
                        !.defers = <<>>,
                        !.trace = IF functions[vm.fn].flag = "HasDefer"
                                  THEN @ \o Reverse(vm.defers) ELSE @]
    /\ UNCHANGED <<tc, valvars, objvars, cgvars>>

NextDefer ==
    \/ GenWithFiles \/ VisitStmtDeclFunc \/ VisitStmtDefer \/ GenFuncDefEnd \/ GenWithFilesEnd
    \/ EnterFrame \/ ExecLoad \/ ExecPreCall \/ ExecCall \/ ExecClose \/ ExecReturn
SpecDefer == Init /\ [][NextDefer]_vars

\* the instruction a defer statement emitted last
LastEmitted == functions[last.fn].code[last.end]
\* C20: for any sequence of CALL(Defer) executed in a frame followed by
\* RETURN, the deferred calls execute in LIFO order; every defer statement is
\* lowered to a call with style Defer in the function that contains it and
\* marks that function HasDefer.
C20_DeferredOrder ==
    /\ last.kind = "defer" =>
          /\ last.fn = 2 /\ functions[last.fn].flag = "HasDefer"
          /\ last.end > last.start
          /\ LastEmitted.op = "CALL" /\ LastEmitted.t0 = "Defer"
    /\ vm.phase = "run" => \A i \in 1..Len(vm.defers) : vm.defers[i] = vm.calls[i]
    /\ vm.phase = "returned" => vm.trace = Reverse(vm.calls)
\* what holds of the code: the same for the defer statements that call a
\* function value, and the deferred calls of a frame run at RETURN, last first
C20_DeferredOrderOfCalls ==
    /\ (last.kind = "defer" /\ last.token = "call") =>
          /\ last.fn = 2 /\ functions[last.fn].flag = "HasDefer"
          /\ LastEmitted.op = "CALL" /\ LastEmitted.t0 = "Defer"
    /\ last.kind = "defer" => functions[last.fn].flag = "HasDefer"
    /\ vm.phase = "returned" =>
          SelectSeq(vm.trace, LAMBDA x : x.op = "CALL")
              = Reverse(SelectSeq(vm.calls, LAMBDA x : x.op = "CALL"))


(***************************************************************************)
(* The mark protocol                                                       *)
(***************************************************************************)
\* the step is a mark_dirty that reached the cell of allocation a
MarkStep(a) == olast'.k = olast.k + 1 /\ olast'.op = "mark_dirty" /\ olast'.addr = a
\* every cell but that of a is as it was
OtherCellsKept(a) ==
    /\ Len(heap') = Len(heap)
    /\ \A c \in 1..Len(heap) : c # a => heap'[c] = heap[c]

\* C25: mark_dirty on a composite value whose refcount is <= 0 appends the
\* old count to the queue exactly once and sets the count to 1; on a value
\* whose count is > 0 it changes neither the count nor the queue; hence
\* marking the same value twice in succession enqueues at most one entry and
\* the count is >= 1 after any mark.
C25_MarkProtocol ==
    [][\A a \in 1..Len(heap) :
          MarkStep(a) =>
             /\ OtherCellsKept(a)
             /\ heap[a].rc <= 0 => queue' = Append(queue, heap[a].rc) /\ heap'[a].rc = 1
             /\ heap[a].rc > 0 => queue' = queue /\ heap'[a] = heap[a]
             /\ heap'[a].rc >= 1
             \* the second of two marks of the same cell in succession
             /\ (olast.op = "mark_dirty" /\ olast.addr = a) => queue' = queue]_vars
\* a mark has found a count at 0 or below, queued it and set the cell to 1
C25_Witness ==
    /\ olast.op = "mark_dirty" /\ olast.addr # 0
    /\ olast.n <= 0
    /\ Len(queue) >= 1 /\ queue[Len(queue)] = olast.n
    /\ heap[olast.addr].rc = 1
\* a mark has found a positive count, with an entry queued before it
C25_WitnessPositive ==
    /\ olast.op = "mark_dirty" /\ olast.addr # 0
    /\ olast.n > 0 /\ Len(queue) = 1


(***************************************************************************)
(* Prefix offsets of a multi-assignment                                    *)
(***************************************************************************)
\* the stack cells the prefix of a left-hand side occupies: the container
\* and the index of s[b], the container of s[0] and of t.f, the pointer of *p
PrefixCells(l) ==
    CASE l.k = "Ident" -> 0
      [] l.k = "Index" -> IF l.ix = "const" THEN 1 ELSE 2
      [] l.k = "Selector" -> 1
      [] l.k = "Star" -> 1
\* the cells of the prefixes of the left-hand sides before the j-th
RECURSIVE PrefixCellsBefore(_, _)
PrefixCellsBefore(lhs, j) ==
    IF j <= 1 THEN 0 ELSE PrefixCellsBefore(lhs, j - 1) + PrefixCells(lhs[j - 1])
\* the statement lowered last stores through gen_assign_def_var; the values
\* of a select receive lie below the prefixes
StoresLowered == last.kind \in {"assign", "recv"}
ValuesAbove == IF last.kind = "recv" THEN 0 ELSE Len(last.dst)
\* the STORE of the j-th left-hand side (from 1) is at p
StoreOf(j, p) ==
    /\ p \in LastRange
    /\ InstAt(LastFn, p).op \in StoreOps
    /\ InstAt(LastFn, p).who = Who("store", j - 1)

\* C23: in gen_assign_def_var with several left-hand sides that have stack
\* prefixes (index, struct-field or deref targets), the stack offset given to
\* each left-hand side's STORE designates the cell where that left-hand
\* side's own prefix was pushed: offsets start at minus (total prefix cells +
\* number of values), or minus the total prefix cells for a select receive,
\* and advance by exactly the number of cells (stack_space, 1 or 2) occupied
\* by the preceding prefixed left-hand side.
C23_PrefixOffsets ==
    StoresLowered =>
        \A j \in 1..Len(last.lhs) : \A p \in LastRange :
            (PrefixCells(last.lhs[j]) > 0 /\ StoreOf(j, p)) =>
                /\ InstAt(LastFn, p).imm
                      = PrefixCellsBefore(last.lhs, j)
                            - (PrefixCellsBefore(last.lhs, Len(last.lhs) + 1) + ValuesAbove)
                /\ CellAt(LastStack(p), InstAt(LastFn, p).imm) = Who("prefix", j - 1)
                /\ CellAt(LastStack(p), InstAt(LastFn, p).imm - 1) # Who("prefix", j - 1)

\* what holds of the code: the offsets start there and advance by two for
\* every preceding index or struct-field target, by one for every deref target
StrideOf(l) == CASE l.k = "Ident" -> 0 [] l.k = "Star" -> 1 [] OTHER -> 2
RECURSIVE StrideBefore(_, _)
StrideBefore(lhs, j) == IF j <= 1 THEN 0 ELSE StrideBefore(lhs, j - 1) + StrideOf(lhs[j - 1])
C23_PrefixOffsetsByTwo ==
    StoresLowered =>
        \A j \in 1..Len(last.lhs) : \A p \in LastRange :
            (PrefixCells(last.lhs[j]) > 0 /\ StoreOf(j, p)) =>
                InstAt(LastFn, p).imm
                    = StrideBefore(last.lhs, j)
                        - (PrefixCellsBefore(last.lhs, Len(last.lhs) + 1) + ValuesAbove)


(***************************************************************************)
(* Control flow: the lowering of switch, type switch, select and break,    *)
(* and the execution of the function lowered.  A second statement is       *)
(* lowered only inside an open if or for.                                  *)
(***************************************************************************)
FlowBody == InBody /\ (stmts = 0 \/ frames # <<>>)
\* the bodies of the clauses of a switch: a = b, or break
SwitchBodies == {<<"assign">>, <<"break">>}
\* one or two clauses with the case list given, at most one of them default;
\* the first of two may end in fallthrough
ClauseSeqs(list, bodies) ==
    LET clause(d, b, ft) == CaseClause(d, IF d THEN <<>> ELSE list, b, ft)
        Lasts == {clause(d, b, FALSE) : d \in BOOLEAN, b \in bodies}
        Firsts == Lasts \cup {clause(d, <<"assign">>, TRUE) : d \in BOOLEAN}
    IN  {<<c>> : c \in Lasts}
          \cup UNION {{<<c1, c2>> : c2 \in {c \in Lasts : ~(c1.default /\ c.default)}}
                         : c1 \in Firsts}
\* the communication clauses of a select: ch <- b, a = <-dh, s[b] = <-dh,
\* a, m = <-dh, <-dh and default
Comms(body) ==
    {CommClause("send", "ch", Ident("b"), <<>>, "", body),
     CommClause("recv", "dh", NoExpr, <<LIdent("a")>>, "ASSIGN", body),
     CommClause("recv", "dh", NoExpr, <<LIndex("s", "var")>>, "ASSIGN", body),
     CommClause("recv", "dh", NoExpr, <<LIdent("a"), LIdent("m")>>, "ASSIGN", body),
     CommClause("recvnolhs", "dh", NoExpr, <<>>, "", body),
     CommClause("default", "", NoExpr, <<>>, "", body)}
CommSeqs ==
    LET Firsts == Comms(<<>>) \cup Comms(<<"break">>)
    IN  {<<c>> : c \in Firsts}
          \cup UNION {{<<c1, c2>> : c2 \in {c \in Comms(<<>>) :
                                                ~(c1.kind = "default" /\ c.kind = "default")}}
                         : c1 \in Firsts}

\* visit_stmt_switch: switch a { case b: } and switch { case m: }
VisitStmtSwitch ==
    /\ FlowBody
    /\ \E tag \in {Ident("a"), NoExpr} :
       \E clauses \in ClauseSeqs(IF tag = NoExpr THEN <<Ident("m")>> ELSE <<Ident("b")>>,
                                 SwitchBodies) :
       \E r \in {visit_stmt_switch(functions, func_stack, branch, tag, clauses, stmts)} :
              /\ functions' = r.fs
              /\ branch' = r.br
              /\ last' = [StmtRec("switch", r.fs, next_code_index(Cur), "SWITCH", <<>>, <<>>,
                                  <<>>, <<>>)
                            EXCEPT !.index = stmts, !.clauses = clauses]
    /\ stmts' = stmts + 1
    /\ UNCHANGED <<func_stack, func_t_stack, frames>> /\ UNCHANGED <<tc, valvars, objvars, vm>>

\* visit_stmt_type_switch: switch x := e.(type) { case T: } and
\* switch e.(type) { case T: }; a break in a clause needs a block to be
\* queued in
VisitStmtTypeSwitch ==
    /\ FlowBody
    /\ \E bind \in IF entity_index(Cur, "x") = NoEnt THEN BOOLEAN ELSE {FALSE} :
       \E clauses \in ClauseSeqs(<<Lit("type")>>,
                                 IF branch = <<>> THEN {<<"assign">>} ELSE SwitchBodies) :
       \E r \in {visit_stmt_type_switch(functions, func_stack, branch, bind, Ident("e"),
                                        clauses, stmts)} :
              /\ functions' = r.fs
              /\ branch' = r.br
              /\ last' = [StmtRec("typeswitch", r.fs, next_code_index(Cur), "SWITCH", <<>>,
                                  <<>>, <<>>, <<>>)
                            EXCEPT !.index = stmts, !.clauses = clauses]
    /\ stmts' = stmts + 1
    /\ UNCHANGED <<func_stack, func_t_stack, frames>> /\ UNCHANGED <<tc, valvars, objvars, vm>>

\* visit_stmt_select
VisitStmtSelect ==
    /\ FlowBody
    /\ \E comms \in CommSeqs :
       \E r \in {visit_stmt_select(functions, func_stack, branch, comms, stmts)} :
              /\ functions' = r.fs
              /\ branch' = r.br
              /\ last' = [StmtRec("select", r.fs, next_code_index(Cur), "SELECT", <<>>, <<>>,
                                  <<>>, <<>>)
                            EXCEPT !.index = stmts, !.clauses = comms, !.blocks = r.blocks,
                                   !.hit = r.sel]
    /\ stmts' = stmts + 1
    /\ UNCHANGED <<func_stack, func_t_stack, frames>> /\ UNCHANGED <<tc, valvars, objvars, vm>>

\* visit_stmt_branch for an unlabeled break in the body of a loop
VisitStmtBranch ==
    /\ FlowBody /\ frames # <<>> /\ TopFrame.kind = "for"
    /\ \E r \in {add_point(Cur, branch, Who("break", stmts))} :
          /\ functions' = WithCur(functions, func_stack, r.f)
          /\ branch' = r.br
          /\ last' = [NoLast EXCEPT !.kind = "break", !.fn = func_stack[Len(func_stack)],
                                    !.start = next_code_index(Cur), !.end = next_code_index(r.f)]
    /\ stmts' = stmts + 1
    /\ UNCHANGED <<func_stack, func_t_stack, frames>> /\ UNCHANGED <<tc, valvars, objvars, vm>>

(***************************************************************************)
(* The instructions as the frame executes them (vm/src/vm.rs is not among  *)
(* the sources): a conditional jump takes the condition off the stack;     *)
(* SWITCH takes the case value off and jumps when it equals the tag        *)
(* beneath; TYPE turns the value on top into its type; SELECT takes the    *)
(* operands of all its clauses off, picks a clause, leaves what a receive  *)
(* yields and continues at the clause's block; stores work in place.  The  *)
(* outcome of a test on a variable is open.  vm.path holds the             *)
(* instructions executed since the last jump backwards.                    *)
(***************************************************************************)
PC == vm.pc - 1
TrueVal == EntIndex("Const", 0, "true")
FalseVal == EntIndex("Const", 0, "false")
\* the frame continues at index to
Goto(to, stack) ==
    [vm EXCEPT !.pc = to + 1, !.stack = stack,
               !.path = IF to <= PC THEN <<>> ELSE Append(@, Visit(PC, Len(vm.stack)))]
StackLess(n) == SubSeq(vm.stack, 1, Len(vm.stack) - n)
Top == vm.stack[Len(vm.stack)]

ExecPush ==
    /\ Running({"PUSH_TRUE", "PUSH_FALSE", "PUSH_CONST", "PUSH_IMM", "PUSH_NIL"})
    /\ vm' = Goto(PC + 1, Append(vm.stack, CASE Fetch.op = "PUSH_TRUE" -> TrueVal
                                             [] Fetch.op = "PUSH_FALSE" -> FalseVal
                                             [] OTHER -> ConstIdx(Fetch.imm)))
    /\ UNCHANGED <<tc, valvars, objvars, cgvars>>
ExecJump ==
    /\ Running({"JUMP"})
    /\ vm' = Goto(JumpTarget(PC, Fetch.imm), vm.stack)
    /\ UNCHANGED <<tc, valvars, objvars, cgvars>>
\* JUMP_IF jumps when the condition is true, JUMP_IF_NOT when it is false
ExecJumpIf ==
    /\ Running({"JUMP_IF", "JUMP_IF_NOT"}) /\ vm.stack # <<>>
    /\ \E c \in IF Top = TrueVal THEN {TRUE} ELSE IF Top = FalseVal THEN {FALSE} ELSE BOOLEAN :
          vm' = Goto(IF c = (Fetch.op = "JUMP_IF") THEN JumpTarget(PC, Fetch.imm) ELSE PC + 1,
                     StackLess(1))
    /\ UNCHANGED <<tc, valvars, objvars, cgvars>>
ExecSwitch ==
    /\ Running({"SWITCH"}) /\ Len(vm.stack) >= 2
    /\ \E same \in BOOLEAN :
          vm' = Goto(IF same THEN JumpTarget(PC, Fetch.imm) ELSE PC + 1, StackLess(1))
    /\ UNCHANGED <<tc, valvars, objvars, cgvars>>
ExecType ==
    /\ Running({"TYPE"}) /\ vm.stack # <<>>
    /\ vm' = Goto(PC + 1, Append(StackLess(1), EntIndex("TypeMeta", 0, "")))
    /\ UNCHANGED <<tc, valvars, objvars, cgvars>>
\* the words of the SELECT that begins at index sel
RECURSIVE SelectWords(_, _)
SelectWords(f, sel) ==
    IF sel < Len(f.code) /\ InstAt(f, sel).op = "SELECT"
          /\ (sel + 1 < Len(f.code) /\ InstAt(f, sel + 1).op = "SELECT"
                 /\ InstAt(f, sel + 1).who.n = InstAt(f, sel).who.n + 1)
    THEN <<InstAt(f, sel)>> \o SelectWords(f, sel + 1)
    ELSE <<InstAt(f, sel)>>
\* the cells the operands of a clause take, and those its receive leaves
OperandCells(t) == CASE t = "Send" -> 2 [] t \in {"Recv", "RecvCommaOk", "RecvNoLhs"} -> 1
                     [] OTHER -> 0
YieldCells(t) == CASE t = "Recv" -> 1 [] t = "RecvCommaOk" -> 2 [] OTHER -> 0
RECURSIVE SumCells(_, _)
SumCells(words, i) ==
    IF i > Len(words) THEN 0 ELSE OperandCells(words[i].t0) + SumCells(words, i + 1)
ExecSelect ==
    /\ Running({"SELECT"})
    /\ \E words \in {SelectWords(functions[vm.fn], PC)} :
          /\ Len(vm.stack) >= SumCells(words, 1)
          /\ \E i \in 1..Len(words) :
                vm' = Goto(PC + Len(words) + words[i].imm,
                           StackLess(SumCells(words, 1))
                               \o [k \in 1..YieldCells(words[i].t0) |-> EntIndex("Recv", k, "")])
    /\ UNCHANGED <<tc, valvars, objvars, cgvars>>
ExecStore ==
    /\ Running(StoreOps)
    /\ vm' = Goto(PC + 1, vm.stack)
    /\ UNCHANGED <<tc, valvars, objvars, cgvars>>
ExecPop ==
    /\ Running({"POP"}) /\ Len(vm.stack) >= Fetch.imm
    /\ vm' = Goto(PC + 1, StackLess(Fetch.imm))
    /\ UNCHANGED <<tc, valvars, objvars, cgvars>>

NextFlow ==
    \/ GenWithFiles \/ VisitStmtDeclFunc
    \/ VisitStmtIf \/ VisitStmtIfEnd \/ VisitStmtFor \/ VisitStmtForEnd
    \/ VisitStmtSwitch \/ VisitStmtTypeSwitch \/ VisitStmtSelect \/ VisitStmtBranch
    \/ GenFuncDefEnd \/ GenWithFilesEnd
    \/ EnterFrame \/ ExecLoad \/ ExecPush \/ ExecJump \/ ExecJumpIf \/ ExecSwitch \/ ExecType
    \/ ExecSelect \/ ExecStore \/ ExecPop \/ ExecReturn
SpecFlow == Init /\ [][NextFlow]_vars

\* every instruction the frame reaches is one of those above
FlowOps ==
    {"LOAD_LOCAL", "LOAD_PKG_FIELD", "PUSH_TRUE", "PUSH_FALSE", "PUSH_CONST", "PUSH_IMM",
     "PUSH_NIL", "JUMP", "JUMP_IF", "JUMP_IF_NOT", "SWITCH", "TYPE", "SELECT", "POP", "RETURN"}
        \cup StoreOps
FlowRuns == vm.phase = "run" => vm.pc <= Len(functions[vm.fn].code) /\ Fetch.op \in FlowOps


(***************************************************************************)
(* Short-circuit evaluation                                                *)
(***************************************************************************)
RunFn == functions[vm.fn]
\* the frame is at the conditional jump of an if or a for whose condition
\* is m && q or m || q: the push of the constant is the instruction before
AfterBinary ==
    /\ vm.phase = "run" /\ PC >= 5 /\ PC < Len(RunFn.code)
    /\ Fetch.who \in {Who("if", 0), Who("for", 0)}
    /\ InstAt(RunFn, PC - 1).op \in {"PUSH_FALSE", "PUSH_TRUE"}
    /\ InstAt(RunFn, PC - 1).who = Who("cond", 0)
\* where the code of the condition begins
BinaryAt == PC - 5
IsLand == InstAt(RunFn, PC - 1).op = "PUSH_FALSE"
\* the entry of vm.path at which the left operand was loaded last
LeftAt == CHOOSE k \in 1..Len(vm.path) :
              /\ vm.path[k].pc = BinaryAt
              /\ \A j \in (k + 1)..Len(vm.path) : vm.path[j].pc # BinaryAt
\* the instructions executed from there on
SinceLeft == [j \in 1..(Len(vm.path) - LeftAt + 1) |-> vm.path[LeftAt + j - 1].pc]
ShortPath == <<BinaryAt, BinaryAt + 1, BinaryAt + 4>>
LongPath == <<BinaryAt, BinaryAt + 1, BinaryAt + 2, BinaryAt + 3>>

\* C26: for a && b (a || b) the code evaluates a, and when a is false (true)
\* jumps over the code of b to a single PUSH_FALSE (PUSH_TRUE); otherwise it
\* evaluates b and skips that push; on both paths exactly one boolean is
\* left on the stack and b is evaluated at most once.
C26_ShortCircuit ==
    AfterBinary =>
       /\ \E k \in 1..Len(vm.path) : vm.path[k].pc = BinaryAt
       /\ InstAt(RunFn, BinaryAt).op = "LOAD_LOCAL"
       /\ InstAt(RunFn, BinaryAt).imm = entity_index(RunFn, "m").i
       /\ InstAt(RunFn, BinaryAt + 1).op = (IF IsLand THEN "JUMP_IF_NOT" ELSE "JUMP_IF")
       /\ InstAt(RunFn, BinaryAt + 2).op = "LOAD_PKG_FIELD"
       /\ SinceLeft \in {ShortPath, LongPath}
       /\ SinceLeft = ShortPath => Top = (IF IsLand THEN FalseVal ELSE TrueVal)
       /\ SinceLeft = LongPath => Top = PackageMember(InstAt(RunFn, BinaryAt + 2).t1)
       /\ Len(vm.stack) = vm.path[LeftAt].depth + 1
       /\ Cardinality({j \in 1..Len(SinceLeft) : SinceLeft[j] = BinaryAt + 2}) <= 1
\* m && q with m false: the jump went over q to PUSH_FALSE
C26_Witness == AfterBinary /\ IsLand /\ SinceLeft = ShortPath /\ Top = FalseVal
\* m || q with m false: q was evaluated and the push skipped
C26_WitnessRight == AfterBinary /\ ~IsLand /\ SinceLeft = LongPath


(***************************************************************************)
(* A switch in which no case matches                                       *)
(***************************************************************************)
\* the instructions executed since the last jump backwards, and the one the
\* frame is at
Trail ==
    [j \in 1..Len(vm.path) |-> vm.path[j].pc] \o (IF vm.phase = "run" THEN <<PC>> ELSE <<>>)
\* the statement an instruction of a switch, type switch or select belongs to
StmtOf(ins) == ins.who.n \div 8
\* instruction i is the last SWITCH of its statement
LastSwitch(i) ==
    /\ InstAt(RunFn, i).op = "SWITCH"
    /\ ~(i + 1 < Len(RunFn.code) /\ InstAt(RunFn, i + 1).who.r = "case"
            /\ StmtOf(InstAt(RunFn, i + 1)) = StmtOf(InstAt(RunFn, i)))
\* the switch of statement sid has a default clause
HasDefault(sid) ==
    \E j \in 0..(Len(RunFn.code) - 1) : InstAt(RunFn, j).who = Who("default", ClauseId(sid, 0))
\* instruction i is where the body of the default clause of sid begins
DefaultEntry(i, sid) ==
    /\ InstAt(RunFn, i).who.r = "dbody" /\ StmtOf(InstAt(RunFn, i)) = sid
    /\ InstAt(RunFn, i - 1).who # InstAt(RunFn, i).who
\* the last comparison of a switch was executed at Trail[k] and failed
NoMatch(k) == LastSwitch(Trail[k]) /\ Trail[k + 1] = Trail[k] + 1
\* with a default clause: the JUMP behind the comparisons, then the body of
\* the default clause
ToDefault(k, sid) ==
    /\ InstAt(RunFn, Trail[k + 1]).who = Who("default", ClauseId(sid, 0))
    /\ k + 2 <= Len(Trail) => DefaultEntry(Trail[k + 2], sid)

\* C22: in the code emitted by gen_switch_body for a switch that has no
\* default clause, when no case expression equals the tag control transfers
\* to the end of the switch (the trailing POP(1)) without executing any case
\* body; with a default clause control transfers to the default body.
C22_SwitchNoMatch ==
    vm.phase = "run" =>
       \A k \in 1..(Len(Trail) - 1) :
          NoMatch(k) =>
             IF HasDefault(StmtOf(InstAt(RunFn, Trail[k])))
             THEN ToDefault(k, StmtOf(InstAt(RunFn, Trail[k])))
             ELSE InstAt(RunFn, Trail[k + 1]).who
                     = Who("switchpop", ClauseId(StmtOf(InstAt(RunFn, Trail[k])), 0))
\* what holds of the code: with a default clause control goes to its body;
\* without one it goes on with the instruction behind the last comparison,
\* which begins the body of the first clause
C22_SwitchNoMatchEntersFirst ==
    vm.phase = "run" =>
       \A k \in 1..(Len(Trail) - 1) :
          NoMatch(k) =>
             IF HasDefault(StmtOf(InstAt(RunFn, Trail[k])))
             THEN ToDefault(k, StmtOf(InstAt(RunFn, Trail[k])))
             ELSE InstAt(RunFn, Trail[k + 1]).who
                     = Who("body", ClauseId(StmtOf(InstAt(RunFn, Trail[k])), 0))
\* a switch without default whose only comparison failed, the frame in the
\* body of its first clause
C22_FellIntoBody ==
    /\ vm.phase = "run" /\ Len(Trail) >= 2
    /\ NoMatch(Len(Trail) - 1)
    /\ ~HasDefault(StmtOf(InstAt(RunFn, Trail[Len(Trail) - 1])))
    /\ Fetch.who.r = "body"
\* a switch with default whose comparisons failed, the frame in the body of
\* the default clause
C22_InDefault ==
    /\ vm.phase = "run" /\ Len(Trail) >= 3
    /\ NoMatch(Len(Trail) - 2)
    /\ Fetch.who.r = "dbody"


(***************************************************************************)
(* Break scoping                                                           *)
(***************************************************************************)
\* instruction i of the function of the last statement is the JUMP of a
\* break in a clause of statement sid
BreakOf(i, sid) ==
    /\ InstAt(LastFn, i).op = "JUMP"
    /\ InstAt(LastFn, i).who.r \in {"body", "dbody"}
    /\ StmtOf(InstAt(LastFn, i)) = sid
\* the JUMP of a break that stands in the body of a loop itself
LoopBreak(i) == InstAt(LastFn, i).op = "JUMP" /\ InstAt(LastFn, i).who.r = "break"
\* the JUMP of a break in a clause of a type switch
TypeSwitchBreak(i) ==
    /\ InstAt(LastFn, i).op = "JUMP" /\ InstAt(LastFn, i).who.r \in {"body", "dbody"}
    /\ \E j \in 0..(i - 1) :
          InstAt(LastFn, j).who = Who("type", ClauseId(StmtOf(InstAt(LastFn, i)), 0))
Continues(i) == JumpTarget(i, InstAt(LastFn, i).imm)
\* the loops whose body is being lowered
OpenLoops == {k \in 1..Len(frames) : frames[k].kind \in {"for", "range"}}

\* C24: every breakable statement (for, range, expression switch, type
\* switch, select) opens a branch block on entry and closes it on exit, so
\* an unlabeled break inside a case body of a type switch is resolved at the
\* exit of that type switch, not at an enclosing loop.
C24_BreakScoping ==
    /\ Len(branch) = Cardinality(OpenLoops)
    /\ last.kind \in {"switch", "typeswitch", "select"} =>
          \A i \in LastRange : BreakOf(i, last.index) => Continues(i) = last.end
    /\ last.kind = "forend" =>
          \A i \in LastRange : LoopBreak(i) => Continues(i) = last.end
\* what holds of the code: for, range, expression switch and select open
\* and close a block, a type switch opens none, and a break in a clause of
\* a type switch is resolved at the exit of the loop around it
C24_BreakScopingButTypeSwitch ==
    /\ Len(branch) = Cardinality(OpenLoops)
    /\ last.kind \in {"switch", "select"} =>
          \A i \in LastRange : BreakOf(i, last.index) => Continues(i) = last.end
    /\ last.kind = "typeswitch" =>
          \A i \in LastRange : BreakOf(i, last.index) =>
             /\ InstAt(LastFn, i).imm = 0
             /\ \E k \in 1..Len(branch[Len(branch)]) : branch[Len(branch)][k] = i
    /\ last.kind = "forend" =>
          \A i \in LastRange : (LoopBreak(i) \/ TypeSwitchBreak(i)) => Continues(i) = last.end
\* a type switch with a break in a clause has been lowered inside a loop
C24_TypeSwitchBreak ==
    /\ last.kind = "typeswitch" /\ \E i \in LastRange : BreakOf(i, last.index)
\* the loop around such a type switch has been left
C24_TypeSwitchBreakLeft ==
    /\ last.kind = "forend" /\ \E i \in LastRange : TypeSwitchBreak(i)
\* an expression switch with a break in a clause has been lowered
C24_SwitchBreak ==
    /\ last.kind = "switch" /\ \E i \in LastRange : BreakOf(i, last.index)


(***************************************************************************)
(* The operands of a select                                                *)
(***************************************************************************)
\* the instructions of the last statement that name who
Emitted(who) == {p \in LastRange : InstAt(LastFn, p).who = who}
\* the only element of a set of one
TheOne(S) == CHOOSE p \in S : TRUE
\* the select lowered last: where SELECT stands, and its clauses
SelAt == last.hit
ChanOf(i) == Emitted(Who("chan", ClauseId(last.index, i - 1)))
ValOf(i) == Emitted(Who("val", ClauseId(last.index, i - 1)))
\* clause i has its channel, and the value of a send, emitted once
OperandsOnce(i) ==
    /\ Cardinality(ChanOf(i)) = (IF last.clauses[i].kind = "default" THEN 0 ELSE 1)
    /\ Cardinality(ValOf(i)) = (IF last.clauses[i].kind = "send" THEN 1 ELSE 0)
    /\ last.clauses[i].kind # "default" =>
          /\ InstAt(LastFn, TheOne(ChanOf(i))).op = "LOAD_PKG_FIELD"
          /\ InstAt(LastFn, TheOne(ChanOf(i))).t1 = last.clauses[i].chan
    /\ last.clauses[i].kind = "send" =>
          /\ InstAt(LastFn, TheOne(ValOf(i))).op = "LOAD_LOCAL"
          /\ TheOne(ChanOf(i)) < TheOne(ValOf(i))
\* the operands of clause i stand before those of clause j
OperandsBefore(i, j) ==
    \A p \in ChanOf(i) \cup ValOf(i) : \A r \in ChanOf(j) \cup ValOf(j) : p < r
\* the code that belongs to a left-hand side: its prefix, its store, the pop
LhsCode(p) == InstAt(LastFn, p).who.r \in {"prefix", "store", "pop", "cast", "rhs"}
InBlock(p, i) == last.blocks[i].begin <= p /\ p <= last.blocks[i].end
\* the instructions of the function executed that load an operand of the
\* select sid
RunOperands(sid) ==
    {p \in 0..(Len(RunFn.code) - 1) :
        InstAt(RunFn, p).who.r \in {"chan", "val"} /\ StmtOf(InstAt(RunFn, p)) = sid}
\* SELECT was executed at Trail[k]
Selected(k) == InstAt(RunFn, Trail[k]).op = "SELECT"
\* the words of the SELECT at index sel and the blocks they name
BlockBegins(sel) ==
    {sel + Len(SelectWords(RunFn, sel)) + SelectWords(RunFn, sel)[i].imm
        : i \in 1..Len(SelectWords(RunFn, sel))}

\* C21: for every arm of a select statement, its channel expression (and,
\* for a send arm, its value expression) is emitted exactly once, in source
\* order of the arms, before the SELECT instruction, independently of which
\* arm is later chosen; the left-hand sides of receive arms are emitted only
\* inside the arm's own code block after SELECT.
C21_SelectOperands ==
    /\ last.kind = "select" =>
          /\ \A i \in 1..Len(last.clauses) : OperandsOnce(i)
          /\ \A i, j \in 1..Len(last.clauses) : i < j => OperandsBefore(i, j)
          \* before SELECT stand the operands and nothing else, in a line
          /\ \A p \in last.start..(SelAt - 1) :
                /\ InstAt(LastFn, p).who.r \in {"chan", "val"}
                /\ InstAt(LastFn, p).op \notin JumpOps
          /\ \A i \in 1..Len(last.clauses) :
                /\ ChanOf(i) \cup ValOf(i) \subseteq last.start..(SelAt - 1)
                /\ InstAt(LastFn, SelAt + i - 1).op = "SELECT"
                /\ InstAt(LastFn, SelAt + i - 1).t0 = comm_type(last.clauses[i])
                /\ JumpTarget(SelAt + Len(last.clauses) - 1, InstAt(LastFn, SelAt + i - 1).imm)
                      = last.blocks[i].begin
          \* the left-hand sides
          /\ \A p \in LastRange :
                LhsCode(p) => \E i \in 1..Len(last.clauses) :
                                 last.clauses[i].kind = "recv" /\ InBlock(p, i)
          /\ \A i \in 1..Len(last.clauses) :
                last.clauses[i].kind = "recv" =>
                   /\ \E p \in LastRange : InBlock(p, i) /\ InstAt(LastFn, p).who.r = "store"
                   /\ last.clauses[i].lhs[1].k = "Index" =>
                         Cardinality({p \in LastRange :
                                         InBlock(p, i) /\ InstAt(LastFn, p).who.r = "prefix"}) = 2
    /\ vm.phase = "run" =>
          \A k \in 1..Len(Trail) :
             Selected(k) =>
                \* every operand was executed once, in the order of the code
                /\ \A p \in RunOperands(StmtOf(InstAt(RunFn, Trail[k]))) :
                      Cardinality({j \in 1..Len(Trail) : Trail[j] = p}) = 1
                /\ \A j \in 1..Cardinality(RunOperands(StmtOf(InstAt(RunFn, Trail[k])))) :
                      /\ k - j >= 1
                      /\ Trail[k - j] = Trail[k] - j
                      /\ Trail[k - j] \in RunOperands(StmtOf(InstAt(RunFn, Trail[k])))
                \* whichever block is entered
                /\ k < Len(Trail) => Trail[k + 1] \in BlockBegins(Trail[k])
\* ch <- b and s[b] = <-dh lowered: three operands before SELECT
C21_Lowered ==
    /\ last.kind = "select" /\ Len(last.clauses) = 2
    /\ last.clauses[1].kind = "send" /\ last.clauses[2].kind = "recv"
    /\ last.clauses[2].lhs[1].k = "Index"
    /\ SelAt = last.start + 3
\* a select of two clauses with three operands executed, the second block
\* entered
C21_Witness ==
    /\ vm.phase = "run" /\ Len(Trail) >= 5
    /\ Selected(Len(Trail) - 1)
    /\ Len(SelectWords(RunFn, Trail[Len(Trail) - 1])) = 2
    /\ Cardinality(RunOperands(StmtOf(InstAt(RunFn, Trail[Len(Trail) - 1])))) = 3
    /\ PC > Trail[Len(Trail) - 1] + 2


(***************************************************************************)
(* The type checker's statements (types/src/check/stmt.rs).  A statement   *)
(* is [k, tok, cond, list, els]: k the variant of Stmt; tok the token of a *)
(* branch, "label" for a branch with a label, and for an expression        *)
(* statement what raw_expr finds ("call": ExprKind::Statement, "value": an *)
(* expression that is not used, "builtin", "type"), for a return whether   *)
(* it has results ("values"); cond what expr finds of the condition of an  *)
(* if ("invalid", "bool", "int"); list the statements of a block, of the   *)
(* body of an if, or the statement a label stands before; els the else     *)
(* branch, if any.  Expressions, declarations and assignments are checked  *)
(* elsewhere and leave the scope alone.                                    *)
(***************************************************************************)
TStmt(k, tok, cond, list, els) == [k |-> k, tok |-> tok, cond |-> cond, list |-> list, els |-> els]
EmptyStmt == TStmt("Empty", "", "", <<>>, <<>>)
ExprStmt(found) == TStmt("Expr", found, "", <<>>, <<>>)
ReturnStmt(tok) == TStmt("Return", tok, "", <<>>, <<>>)
BranchStmt(tok) == TStmt("Branch", tok, "", <<>>, <<>>)
BlockStmt(list) == TStmt("Block", "", "", list, <<>>)
IfStmt(cond, body, els) == TStmt("If", "", cond, body, els)
LabeledStmt(s) == TStmt("Labeled", "", "", <<s>>, <<>>)
ForStmt == TStmt("For", "", "", <<>>, <<>>)

\* StmtContext and StmtContext::new
StmtContext(break_ok, continue_ok, fallthrough_ok, final_switch_case) ==
    [break_ok |-> break_ok, continue_ok |-> continue_ok, fallthrough_ok |-> fallthrough_ok,
     final_switch_case |-> final_switch_case]
NewStmtContext == StmtContext(FALSE, FALSE, FALSE, FALSE)
\* ObjContext: decl, scope, sig, has_label; 0 is None
ObjContext(decl, scope, sig, has_label) ==
    [decl |-> decl, scope |-> scope, sig |-> sig, has_label |-> has_label]

\* The checker c: octx, indent, tc_objs.scopes (a scope's key is its place,
\* its parent 0 for None), the results of the signature octx.sig names, the
\* errors reported, and a record of every call of stmt: the statement, the
\* fallthrough_ok it was given, how deep the call was nested, octx.scope at
\* its begin and at its end, and whether it returned early
Scope(parent, comment) == [parent |-> parent, comment |-> comment]
Checker(octx, indent, scopes, results) ==
    [octx |-> octx, indent |-> indent, scopes |-> scopes, results |-> results,
     errors |-> <<>>, log |-> <<>>, opens |-> 0, closes |-> 0]
error_str(c, d, msg) == [c EXCEPT !.errors = Append(@, [msg |-> msg, depth |-> d])]

\* TCObjects::new_scope (objects.rs): the scope is inserted, its key returned
new_scope(scopes, parent, comment) == Append(scopes, Scope(parent, comment))
\* close_scope that leaves octx.scope where it is
close_scope_stay(c) == [c EXCEPT !.closes = @ + 1]
\* open_scope and close_scope
open_scope(c, comment) ==
    [c EXCEPT !.scopes = new_scope(@, c.octx.scope, comment),
              !.octx.scope = Len(c.scopes) + 1,
              !.opens = @ + 1]
close_scope(c) ==
    [c EXCEPT !.octx.scope = c.scopes[c.octx.scope].parent, !.closes = @ + 1]

\* stmt_list: the index of the last empty statement, 0 when there is none
LastEmptyIndex(list) ==
    IF \E i \in 1..Len(list) : list[i].k = "Empty"
    THEN (CHOOSE i \in 1..Len(list) :
             /\ list[i].k = "Empty"
             /\ \A j \in (i + 1)..Len(list) : list[j].k # "Empty") - 1
    ELSE 0

\* how an arm of stmt ends: at the end of stmt, or by return
AtEnd(c) == [c |-> c, early |-> FALSE]
Returned(c) == [c |-> c, early |-> TRUE]

RECURSIVE stmt(_, _, _, _)
RECURSIVE stmt_list_from(_, _, _, _, _, _)
\* for (i, s) in block.list[0..index].iter().enumerate()
stmt_list_from(c, list, sctx, i, index, d) ==
    IF i >= index THEN c
    ELSE CHOOSE out \in {
            stmt_list_from(c1, list, sctx, i + 1, index, d)
          : c1 \in {stmt(c, list[i + 1],
                         [sctx EXCEPT !.fallthrough_ok = sctx.fallthrough_ok /\ i + 1 = index],
                         d)}} : TRUE
stmt_list(c, list, sctx, d) == stmt_list_from(c, list, sctx, 0, LastEmptyIndex(list), d)

\* Stmt::Branch
stmt_branch(c, s, ctx, d) ==
    IF s.tok = "label" THEN Returned([c EXCEPT !.octx.has_label = TRUE])
    ELSE AtEnd(
        CASE s.tok = "BREAK" ->
                IF ~ctx.break_ok
                THEN error_str(c, d, "break not in for, switch, or select statement") ELSE c
          [] s.tok = "CONTINUE" ->
                IF ~ctx.continue_ok THEN error_str(c, d, "continue not in for statement") ELSE c
          [] s.tok = "FALLTHROUGH" ->
                IF ~ctx.fallthrough_ok
                THEN error_str(c, d, IF ctx.final_switch_case
                                     THEN "cannot fallthrough final case in switch"
                                     ELSE "fallthrough statement out of place")
                ELSE c
          [] OTHER -> error_str(c, d, "branch statement"))
\* Stmt::If behind open_scope and simple_stmt: the condition
stmt_if_cond(c, s, d) ==
    IF s.cond # "invalid" /\ s.cond = "bool"
    THEN error_str(c, d, "non-boolean condition in if statement") ELSE c
\* Stmt::If: the else branch
stmt_if_else(c, s, inner_ctx, d) ==
    IF s.els = <<>> THEN c
    ELSE CASE s.els[1].k = "Bad" -> c
           [] s.els[1].k \in {"If", "Block"} -> stmt(c, s.els[1], inner_ctx, d + 1)
           [] OTHER -> error_str(c, d, "invalid else branch in if statement")
\* the arms of the match in stmt
stmt_match(c, s, ctx, inner_ctx, d) ==
    CASE s.k \in {"Bad", "Empty"} -> AtEnd(c)
      [] s.k = "Labeled" ->
            AtEnd(stmt([c EXCEPT !.octx.has_label = TRUE], s.list[1], ctx, d + 1))
      [] s.k = "Expr" ->
            CASE s.tok = "builtin" -> AtEnd(error_str(c, d, "must be called"))
              [] s.tok = "type" -> AtEnd(error_str(c, d, "is not an expression"))
              [] s.tok = "call" -> Returned(c)
              [] OTHER -> AtEnd(error_str(c, d, "is not used"))
      [] s.k = "Return" ->
            AtEnd(IF c.results > 0 THEN c
                  ELSE IF s.tok = "values" THEN error_str(c, d, "no result values expected")
                  ELSE c)
      [] s.k = "Branch" -> stmt_branch(c, s, ctx, d)
      [] s.k = "Block" ->
            AtEnd(close_scope(stmt_list(open_scope(c, "block"), s.list, inner_ctx, d + 1)))
      [] s.k = "If" ->
            AtEnd(close_scope(
                stmt_if_else(
                    stmt(stmt_if_cond(open_scope(c, "if"), s, d), BlockStmt(s.list), inner_ctx,
                         d + 1),
                    s, inner_ctx, d)))
      [] s.k \in {"Switch", "TypeSwitch", "Select", "For", "Range"} -> AtEnd(c)
\* stmt; the call is recorded when it is over
stmt(c, s, ctx, d) ==
    CHOOSE out \in {
        [r.c EXCEPT !.log = Append(@, [stmt |-> s, ft |-> ctx.fallthrough_ok, depth |-> d,
                                       begin |-> c.octx.scope, end |-> r.c.octx.scope,
                                       early |-> r.early])]
      : r \in {stmt_match(c, s, ctx,
                          [ctx EXCEPT !.fallthrough_ok = FALSE, !.final_switch_case = FALSE],
                          d)}} : TRUE

\* the statements of list without the empty ones at its end
RECURSIVE TrimTrailingEmpty(_)
TrimTrailingEmpty(list) ==
    IF list # <<>> /\ list[Len(list)].k = "Empty"
    THEN TrimTrailingEmpty(SubSeq(list, 1, Len(list) - 1)) ELSE list
\* Checker::is_terminating (types/src/check/return.rs is not among the
\* sources): a return; a block whose last statement that is not empty is
\* terminating; an if with an else both of whose branches are; a labeled
\* statement whose statement is
RECURSIVE is_terminating(_)
is_terminating(s) ==
    CASE s.k = "Return" -> TRUE
      [] s.k = "Block" ->
            /\ TrimTrailingEmpty(s.list) # <<>>
            /\ is_terminating(TrimTrailingEmpty(s.list)[Len(TrimTrailingEmpty(s.list))])
      [] s.k = "If" ->
            /\ s.els # <<>>
            /\ is_terminating(BlockStmt(s.list)) /\ is_terminating(s.els[1])
      [] s.k = "Labeled" -> is_terminating(s.list[1])
      [] OTHER -> FALSE

\* func_body behind stmt_list: the missing return, then octx and indent are
\* restored
func_body_end(c, old, scope_key, body) ==
    [(IF c.results > 0 /\ is_terminating(BlockStmt(body)) THEN error_str(c, 0, "missing return")
      ELSE c)
        EXCEPT !.octx = old.octx, !.indent = old.indent, !.results = old.results]
\* func_body of a function whose signature has the scope scope_key and
\* results results
func_body(c, di, sig, scope_key, results, body) ==
    func_body_end(
        stmt_list([c EXCEPT !.octx = ObjContext(di, scope_key, sig, FALSE), !.indent = 0,
                            !.results = results],
                  body, NewStmtContext, 0),
        c, scope_key, body)

(***************************************************************************)
(* The checker run on one function body, one statement or one statement    *)
(* list.  The scopes before: the universe, the package, the function and a *)
(* block in it.                                                            *)
(***************************************************************************)
ScopesBefore ==
    <<Scope(0, "universe"), Scope(1, "package"), Scope(2, "function"), Scope(3, "block")>>
\* the checker inside the function, at the function's scope or the block's
Inside(scope) == Checker(ObjContext(1, scope, 1, FALSE), 0, ScopesBefore, 1)
\* the checker at the package, before a function is entered
Outside(indent) == Checker(ObjContext(0, 2, 0, FALSE), indent, ScopesBefore, 0)

SimpleStmts ==
    {EmptyStmt, ExprStmt("call"), ExprStmt("value"), ReturnStmt("values"),
     BranchStmt("FALLTHROUGH"), BranchStmt("BREAK"), BranchStmt("label"), ForStmt}
\* the statement lists of the blocks inside
InnerLists ==
    {<<>>, <<EmptyStmt>>, <<ReturnStmt("values")>>, <<ReturnStmt("values"), EmptyStmt>>,
     <<ExprStmt("call"), EmptyStmt>>, <<ExprStmt("value"), EmptyStmt, EmptyStmt>>,
     <<BranchStmt("label"), EmptyStmt>>}
Conditions == {"invalid", "bool", "int"}
ElseBranches ==
    {<<>>, <<BlockStmt(<<ReturnStmt("values"), EmptyStmt>>)>>, <<BlockStmt(<<>>)>>,
     <<IfStmt("int", <<ExprStmt("call"), EmptyStmt>>, <<>>)>>, <<ExprStmt("value")>>}
Statements ==
    SimpleStmts
      \cup {BlockStmt(l) : l \in InnerLists}
      \cup {IfStmt(cond, l, e) : cond \in Conditions,
                                 l \in {<<>>, <<ReturnStmt("values"), EmptyStmt>>,
                                        <<ExprStmt("call"), EmptyStmt>>},
                                 e \in ElseBranches}
      \cup {LabeledStmt(s) : s \in {BlockStmt(<<ExprStmt("call"), EmptyStmt>>), ExprStmt("call")}}
      \cup {BlockStmt(<<IfStmt("int", <<BlockStmt(<<ExprStmt("call"), EmptyStmt>>), EmptyStmt>>,
                               <<>>), EmptyStmt>>)}
\* the statement lists of a function body or a clause: up to MaxList
\* statements, the last of them any statement, those before it simple ones,
\* a block or an if
MaxList == 3
Fronts == SimpleStmts \cup {BlockStmt(<<ReturnStmt("values"), EmptyStmt>>),
                            IfStmt("bool", <<>>, <<>>)}
RECURSIVE FrontLists(_)
FrontLists(n) ==
    IF n = 0 THEN {<<>>}
    ELSE FrontLists(n - 1) \cup {Append(l, s) : l \in FrontLists(n - 1), s \in Fronts}
StmtLists == FrontLists(MaxList) \cup {Append(l, s) : l \in FrontLists(MaxList - 1), s \in Statements}

Ran(op, s, ctx, results, before, after) ==
    [op |-> op, stmt |-> s, ctx |-> ctx, results |-> results, before |-> before,
     after |-> after]
\* func_body on a body, for a signature without results or with one
CheckFuncBody ==
    /\ tc.op = "none"
    /\ \E body \in StmtLists, results \in 0..1, indent \in 0..1 :
          tc' = Ran("func_body", BlockStmt(body), NewStmtContext, results, Outside(indent),
                    func_body(Outside(indent), 1, 1, 3, results, body))
    /\ UNCHANGED <<valvars, objvars, cgvars, vm>>
\* stmt on a statement of a function body
CheckStmt ==
    /\ tc.op = "none"
    /\ \E s \in Statements, scope \in 3..4, ok \in BOOLEAN :
          tc' = Ran("stmt", s, StmtContext(ok, FALSE, ok, FALSE), 1, Inside(scope),
                    stmt(Inside(scope), s, StmtContext(ok, FALSE, ok, FALSE), 0))
    /\ UNCHANGED <<valvars, objvars, cgvars, vm>>
\* stmt_list on the statements of a block or a clause
CheckStmtList ==
    /\ tc.op = "none"
    /\ \E list \in StmtLists, ok \in BOOLEAN :
          tc' = Ran("stmt_list", BlockStmt(list), StmtContext(FALSE, FALSE, ok, FALSE), 1,
                    Inside(3),
                    stmt_list(Inside(3), list, StmtContext(FALSE, FALSE, ok, FALSE), 0))
    /\ UNCHANGED <<valvars, objvars, cgvars, vm>>

NextCheck == CheckFuncBody \/ CheckStmt \/ CheckStmtList
SpecCheck == Init /\ [][NextCheck]_vars


(***************************************************************************)
(* Properties of the type checker's statements                             *)
(***************************************************************************)
\* the calls of stmt made by the outermost stmt_list, in order
Checked == SelectSeq(tc.after.log, LAMBDA e : e.depth = 0)
CheckedStmts == [i \in 1..Len(Checked) |-> Checked[i].stmt]
\* the errors the outermost call reported
Reported(msg) == {i \in 1..Len(tc.after.errors) :
                     tc.after.errors[i].msg = msg /\ tc.after.errors[i].depth = 0}
\* stmt was called for s from the outermost call
CheckedInside(s) == \E i \in 1..Len(tc.after.log) :
                        tc.after.log[i].depth = 1 /\ tc.after.log[i].stmt = s

\* C27: stmt_list checks every statement of a block except trailing empty
\* statements; in particular, for a block that contains no empty statement
\* all of its statements are checked, and only the last checked statement
\* may inherit fallthrough_ok.
C27_StmtList ==
    tc.op \in {"stmt_list", "func_body"} =>
       /\ CheckedStmts = TrimTrailingEmpty(tc.stmt.list)
       /\ (\A i \in 1..Len(tc.stmt.list) : tc.stmt.list[i].k # "Empty") =>
             CheckedStmts = tc.stmt.list
       /\ \A i \in 1..Len(Checked) :
             Checked[i].ft => i = Len(Checked) /\ tc.ctx.fallthrough_ok
\* what holds of the code: the statements before the last empty statement
\* of the block are checked, none when the block has no empty statement, and
\* only the last of those checked inherits fallthrough_ok
C27_StmtListBeforeLastEmpty ==
    tc.op \in {"stmt_list", "func_body"} =>
       /\ CheckedStmts = SubSeq(tc.stmt.list, 1, LastEmptyIndex(tc.stmt.list))
       /\ (\A i \in 1..Len(tc.stmt.list) : tc.stmt.list[i].k # "Empty") => CheckedStmts = <<>>
       /\ \A i \in 1..Len(Checked) :
             Checked[i].ft <=> (i = Len(Checked) /\ tc.ctx.fallthrough_ok)
\* a list of two statements, neither empty, of which none was checked
C27_NoneChecked ==
    /\ tc.op = "stmt_list" /\ Len(tc.stmt.list) = 2
    /\ \A i \in 1..2 : tc.stmt.list[i].k # "Empty"
    /\ Checked = <<>>
\* a list that ends in one empty statement: those before it were checked,
\* the last of them with fallthrough_ok
C27_CheckedToEmpty ==
    /\ tc.op = "stmt_list" /\ Len(tc.stmt.list) = 3 /\ tc.stmt.list[3].k = "Empty"
    /\ tc.stmt.list[2].k # "Empty"
    /\ Len(Checked) = 2 /\ Checked[2].ft

\* C28: for an if statement whose condition operand is valid, the error
\* 'non-boolean condition in if statement' is reported exactly when the
\* condition's type is not boolean, and the body and else branch are checked
\* in either case.
C28_IfCondition ==
    (tc.op = "stmt" /\ tc.stmt.k = "If" /\ tc.stmt.cond # "invalid") =>
       /\ (Reported("non-boolean condition in if statement") # {}) <=> tc.stmt.cond # "bool"
       /\ CheckedInside(BlockStmt(tc.stmt.list))
       /\ (tc.stmt.els # <<>> /\ tc.stmt.els[1].k \in {"If", "Block"}) =>
             CheckedInside(tc.stmt.els[1])
\* what holds of the code: the error is reported exactly when the condition
\* is boolean; body and else branch are checked in either case
C28_IfConditionInverted ==
    (tc.op = "stmt" /\ tc.stmt.k = "If" /\ tc.stmt.cond # "invalid") =>
       /\ Cardinality(Reported("non-boolean condition in if statement"))
             = (IF tc.stmt.cond = "bool" THEN 1 ELSE 0)
       /\ CheckedInside(BlockStmt(tc.stmt.list))
       /\ (tc.stmt.els # <<>> /\ tc.stmt.els[1].k \in {"If", "Block"}) =>
             CheckedInside(tc.stmt.els[1])
\* an if with a boolean condition and an else block, the error reported
C28_BooleanReported ==
    /\ tc.op = "stmt" /\ tc.stmt.k = "If" /\ tc.stmt.cond = "bool"
    /\ tc.stmt.els # <<>> /\ tc.stmt.els[1].k = "Block"
    /\ Reported("non-boolean condition in if statement") # {}
\* an if with a condition of type int, no error reported
C28_IntAccepted ==
    /\ tc.op = "stmt" /\ tc.stmt.k = "If" /\ tc.stmt.cond = "int"
    /\ tc.after.errors = <<>>

\* C29: func_body reports 'missing return' exactly when the function's
\* signature has at least one result and its body is not a terminating
\* statement; a body that is terminating, or a function without results,
\* gets no such error.
C29_MissingReturn ==
    tc.op = "func_body" =>
       ((Reported("missing return") # {}) <=> (tc.results > 0 /\ ~is_terminating(tc.stmt)))
\* what holds of the code: the error is reported exactly when the signature
\* has a result and the body is terminating
C29_MissingReturnInverted ==
    tc.op = "func_body" =>
       Cardinality(Reported("missing return"))
          = (IF tc.results > 0 /\ is_terminating(tc.stmt) THEN 1 ELSE 0)
\* a body that ends in return, for a signature with a result: reported
C29_TerminatingReported ==
    /\ tc.op = "func_body" /\ tc.results = 1
    /\ tc.stmt.list # <<>> /\ tc.stmt.list[Len(tc.stmt.list)].k = "Return"
    /\ Reported("missing return") # {}
\* a body without return, for a signature with a result: not reported
C29_OpenEndAccepted ==
    /\ tc.op = "func_body" /\ tc.results = 1
    /\ tc.stmt.list = <<ExprStmt("call")>>
    /\ Reported("missing return") = {}

\* the calls of stmt that ran to their end
RanToEnd == {i \in 1..Len(tc.after.log) : ~tc.after.log[i].early}
\* C30: whenever Checker::stmt runs to its end for any statement, the
\* current scope (octx.scope) equals the scope that was current on entry,
\* because every open_scope is matched by exactly one close_scope on every
\* path and close_scope restores the parent recorded by open_scope;
\* func_body likewise restores the previous object context and indent on
\* exit.
C30_ScopeBalance ==
    tc.op # "none" =>
       /\ \A i \in RanToEnd : tc.after.log[i].end = tc.after.log[i].begin
       /\ tc.after.opens = tc.after.closes
       /\ tc.after.opens = Len(tc.after.scopes) - Len(tc.before.scopes)
       /\ \A k \in 1..Len(tc.before.scopes) : tc.after.scopes[k] = tc.before.scopes[k]
       /\ tc.op \in {"stmt", "stmt_list"} => tc.after.octx.scope = tc.before.octx.scope
       /\ tc.op = "func_body" =>
             /\ tc.after.octx = tc.before.octx
             /\ tc.after.indent = tc.before.indent
\* a block with an if with a block in its body: three scopes opened, one
\* inside the other, and the scope of entry current again
C30_Witness ==
    /\ tc.op = "stmt" /\ tc.stmt.k = "Block"
    /\ tc.after.opens >= 4
    /\ \E i \in RanToEnd : tc.after.log[i].depth = 3 /\ tc.after.log[i].begin = 7
    /\ tc.after.octx.scope = tc.before.octx.scope
\* func_body entered with indent 1 and left with it, scopes opened in between
C30_WitnessFuncBody ==
    /\ tc.op = "func_body" /\ tc.before.indent = 1 /\ tc.after.indent = 1
    /\ tc.after.opens >= 1

=============================================================================
